---------------------------- MODULE Spec2Model ----------------------------
(***************************************************************************)
(* A model of full-moon, a lossless Lua parser: the character-level lexer  *)
(* (full-moon/src/tokenizer/lexer.rs), the token / trivia model            *)
(* (full-moon-common/src/tokenizer.rs), the parser state and its helper    *)
(* operations (full-moon-common/src/ast/parser_structs.rs), the            *)
(* error-recovery driver (full-moon/src/ast/parser_structs.rs), blocks     *)
(* (full-moon-common/src/ast/mod.rs), punctuated sequences                 *)
(* (full-moon-common/src/ast/punctuated.rs), nodes and their token         *)
(* iterator (full-moon-common/src/node.rs) and binary operators            *)
(* (full-moon-common/src/ast/make_bin_op.rs, full-moon-super/src/ast.rs).  *)
(*                                                                         *)
(* Strings of the program are sequences of one-character strings, so that  *)
(* lexing and printing work on characters.                                 *)
(***************************************************************************)
EXTENDS Integers, Sequences, FiniteSets, TLC

VARIABLES
    source,     \* the code handed to parse / parse_fallible
    slots,      \* the results the lexer yields for it, in order (the last is Eof)
    pc,         \* where the driver (or the operation sequence) stands
    pos,        \* ParserState.lexer: index of the current slot
    errors,     \* ParserState.errors
    block,      \* the accumulated block of parse_fallible
    eof,        \* the Eof token reference taken after the loop
    result,     \* what the strict entry point parse returns
    oplog,      \* the ParserState operations of the last step, each with its pre- and post-state
    obs,        \* what the last driver step did (fragment returned, progress made)
    pairs,      \* Punctuated.pairs
    lexer,      \* the character-level Lexer: its source position and whether Eof was sent
    root,       \* the node whose tokens are iterated
    items,      \* Tokens.items: the work list of the iterator
    taken,      \* what the calls made so far have returned
    lua_version \* the Lua versions of the active dialect

vars == <<source, slots, pc, pos, errors, block, eof, result, oplog, obs, pairs,
          lexer, root, items, taken, lua_version>>

\* The variables of the lexer, of the token iterator and of the dialect.
walk == <<lexer, root, items, taken, lua_version>>

\* Option::None where the value is a string (a character, a symbol name).
None == "None"
\* Option::None where the value is a record (a token, a lexer result).
Nothing == [kind |-> "None"]

(***************************************************************************)
(* Bounds of the model.                                                    *)
(***************************************************************************)
\* Sources are concatenations of at most MaxWords words of Words.
MaxWords == 3
\* Streams of the operation-level specification hold at most MaxOpSlots slots before Eof.
MaxOpSlots == 2
\* The operation-level specification stops recording once errors holds MaxErrors entries.
MaxErrors == 3
\* Punctuated sequences hold at most MaxPairs pairs.
MaxPairs == 3
MaxErrorList == 2
MaxWithCalls == 4

(***************************************************************************)
(* Characters.                                                             *)
(***************************************************************************)
LowerCase == {"a","b","c","d","e","f","g","h","i","j","k","l","m",
              "n","o","p","q","r","s","t","u","v","w","x","y","z"}
UpperCase == {"A","B","C","D","E","F","G","H","I","J","K","L","M",
              "N","O","P","Q","R","S","T","U","V","W","X","Y","Z"}
Digits == {"0","1","2","3","4","5","6","7","8","9"}

\* fn is_identifier_start
is_identifier_start(character) == character \in LowerCase \cup UpperCase \cup {"_"}

(***************************************************************************)
(* Symbols: the table of full-moon-super/src/symbols.rs, as far as the     *)
(* lexer of full-moon/src/tokenizer/lexer.rs can produce them (keywords    *)
(* through Symbol::try_from, and = == ( ) ).                               *)
(***************************************************************************)
SymbolTable ==
    << [name |-> "And",      string |-> <<"a","n","d">>],
       [name |-> "Break",    string |-> <<"b","r","e","a","k">>],
       [name |-> "Do",       string |-> <<"d","o">>],
       [name |-> "Else",     string |-> <<"e","l","s","e">>],
       [name |-> "ElseIf",   string |-> <<"e","l","s","e","i","f">>],
       [name |-> "End",      string |-> <<"e","n","d">>],
       [name |-> "False",    string |-> <<"f","a","l","s","e">>],
       [name |-> "For",      string |-> <<"f","o","r">>],
       [name |-> "Function", string |-> <<"f","u","n","c","t","i","o","n">>],
       [name |-> "If",       string |-> <<"i","f">>],
       [name |-> "In",       string |-> <<"i","n">>],
       [name |-> "Local",    string |-> <<"l","o","c","a","l">>],
       [name |-> "Nil",      string |-> <<"n","i","l">>],
       [name |-> "Not",      string |-> <<"n","o","t">>],
       [name |-> "Or",       string |-> <<"o","r">>],
       [name |-> "Repeat",   string |-> <<"r","e","p","e","a","t">>],
       [name |-> "Return",   string |-> <<"r","e","t","u","r","n">>],
       [name |-> "Then",     string |-> <<"t","h","e","n">>],
       [name |-> "True",     string |-> <<"t","r","u","e">>],
       [name |-> "Until",    string |-> <<"u","n","t","i","l">>],
       [name |-> "While",    string |-> <<"w","h","i","l","e">>],
       [name |-> "Equal",      string |-> <<"=">>],
       [name |-> "TwoEqual",   string |-> <<"=","=">>],
       [name |-> "LeftParen",  string |-> <<"(">>],
       [name |-> "RightParen", string |-> <<")">>],
       [name |-> "Semicolon",  string |-> <<";">>] >>

\* The keywords are the entries spelled with letters.
Keywords == {i \in 1..Len(SymbolTable) : is_identifier_start(SymbolTable[i].string[1])}

\* Symbol::try_from(&str): the symbol spelled text, or None.
SymbolTryFrom(text) ==
    IF \E i \in Keywords : SymbolTable[i].string = text
    THEN SymbolTable[CHOOSE i \in Keywords : SymbolTable[i].string = text].name
    ELSE None

\* impl Display for Symbol: the spelling of a symbol.
SymbolDisplay(symbol) ==
    SymbolTable[CHOOSE i \in 1..Len(SymbolTable) : SymbolTable[i].name = symbol].string

(***************************************************************************)
(* Positions and the source cursor of the lexer.                           *)
(***************************************************************************)
\* LexerSource::new: the position before the first character.
StartPosition == [bytes |-> 0, line |-> 1, character |-> 1]

\* LexerSource::current: source.get(position.bytes)
SourceCurrent(src, position) ==
    IF position.bytes + 1 <= Len(src) THEN src[position.bytes + 1] ELSE None

\* LexerSource::peek: source.get(position.bytes + 1)
SourcePeek(src, position) ==
    IF position.bytes + 2 <= Len(src) THEN src[position.bytes + 2] ELSE None

\* The position after LexerSource::next (unchanged at the end of the input).
SourceNext(src, position) ==
    LET next == SourceCurrent(src, position) IN
    IF next = None THEN position
    ELSE IF next = "\n"
         THEN [bytes |-> position.bytes + 1, line |-> position.line + 1, character |-> 1]
         ELSE [bytes |-> position.bytes + 1, line |-> position.line,
               character |-> position.character + 1]

\* LexerSource::consume: [ok, position]; it tests peek(), then calls next().
SourceConsume(src, position, character) ==
    IF SourcePeek(src, position) = character
    THEN [ok |-> TRUE, position |-> SourceNext(src, position)]
    ELSE [ok |-> FALSE, position |-> position]

(***************************************************************************)
(* Tokens.                                                                 *)
(***************************************************************************)
\* struct Token: a token type (kind and payload) between two positions.
Token(kind, text, symbol, start_position, end_position) ==
    [kind |-> kind, text |-> text, symbol |-> symbol,
     start_position |-> start_position, end_position |-> end_position]

\* impl Display for Token
TokenDisplay(token) ==
    CASE token.kind = "Eof" -> <<>>
      [] token.kind = "Number" -> token.text
      [] token.kind = "Identifier" -> token.text
      [] token.kind = "Symbol" -> SymbolDisplay(token.symbol)
      [] token.kind = "Whitespace" -> token.text
      [] OTHER -> token.text

\* A plausible slip in the identifier arm: one more character at most.
TakeWhileOnce(src, position, set) ==
    LET next == SourceCurrent(src, position) IN
    IF next # None /\ next \in set
    THEN SourceNext(src, position)
    ELSE position

RECURSIVE TakeWhile(_, _, _)
\* `while let Some(next) = self.source.current() { if <next in set> { next() } else { break } }`:
\* the position after the run of characters of set that starts at position.
TakeWhile(src, position, set) ==
    LET next == SourceCurrent(src, position) IN
    IF next # None /\ next \in set
    THEN TakeWhile(src, SourceNext(src, position), set)
    ELSE position

RECURSIVE TakeWhitespaceAcrossLines(_, _)
\* A plausible slip in the whitespace arm: no break after the newline.
TakeWhitespaceAcrossLines(src, position) ==
    LET next == SourceCurrent(src, position) IN
    IF next = " " \/ next = "\t" \/ next = "\n"
    THEN TakeWhitespaceAcrossLines(src, SourceNext(src, position))
    ELSE IF next = "\r" /\ SourcePeek(src, position) = "\n"
    THEN SourceNext(src, SourceNext(src, position))
    ELSE position

RECURSIVE TakeWhitespace(_, _)
\* The loop of the whitespace arm: spaces and tabs, up to and including the
\* first newline ("\n", or "\r" followed by "\n").
TakeWhitespace(src, position) ==
    LET next == SourceCurrent(src, position) IN
    IF next = " " \/ next = "\t"
    THEN TakeWhitespace(src, SourceNext(src, position))
    ELSE IF next = "\n"
    THEN SourceNext(src, position)
    ELSE IF next = "\r" /\ SourcePeek(src, position) = "\n"
    THEN SourceNext(src, SourceNext(src, position))
    ELSE position

\* The characters of src from byte offset from (inclusive) to byte offset to (exclusive).
Slice(src, from, to) == SubSeq(src, from + 1, to)

\* Lexer::create: an Ok token that ends at the cursor.
Create(start_position, kind, text, symbol, position) ==
    [kind |-> "Ok", token |-> Token(kind, text, symbol, start_position, position)]

\* Lexer::process_next: [result, position, sent_eof], where result is None, an Ok
\* token or an Err tokenizer error.
ProcessNext(src, position, sent_eof) ==
    LET start_position == position
        next == SourceCurrent(src, position)
        after == SourceNext(src, position)
    IN
    IF next = None
    THEN IF sent_eof
         THEN [result |-> Nothing, position |-> position, sent_eof |-> TRUE]
         ELSE [result |-> Create(start_position, "Eof", <<>>, None, position),
               position |-> position, sent_eof |-> TRUE]
    ELSE IF is_identifier_start(next)
    THEN LET end == TakeWhile(src, after, LowerCase \cup UpperCase \cup {"_"} \cup Digits)
             identifier == Slice(src, start_position.bytes, end.bytes)
             symbol == SymbolTryFrom(identifier)
         IN [result |-> IF symbol # None
                        THEN Create(start_position, "Symbol", <<>>, symbol, end)
                        ELSE Create(start_position, "Identifier", identifier, None, end),
             position |-> end, sent_eof |-> sent_eof]
    ELSE IF next = " " \/ next = "\t"
    THEN LET end == TakeWhitespace(src, after)
         IN [result |-> Create(start_position, "Whitespace",
                               Slice(src, start_position.bytes, end.bytes), None, end),
             position |-> end, sent_eof |-> sent_eof]
    ELSE IF next \in Digits
    THEN LET end == TakeWhile(src, after, Digits)
         IN [result |-> Create(start_position, "Number",
                               Slice(src, start_position.bytes, end.bytes), None, end),
             position |-> end, sent_eof |-> sent_eof]
    ELSE IF next = "="
    THEN LET consumed == SourceConsume(src, after, "=")
         IN [result |-> Create(start_position, "Symbol", <<>>,
                               IF consumed.ok THEN "TwoEqual" ELSE "Equal",
                               consumed.position),
             position |-> consumed.position, sent_eof |-> sent_eof]
    ELSE IF next = "\n"
    THEN [result |-> [kind |-> "Ok",
                      token |-> Token("Whitespace", <<"\n">>, None, start_position,
                                      [start_position EXCEPT !.bytes = start_position.bytes + 1])],
          position |-> after, sent_eof |-> sent_eof]
    ELSE IF next = "("
    THEN [result |-> Create(start_position, "Symbol", <<>>, "LeftParen", after),
          position |-> after, sent_eof |-> sent_eof]
    ELSE IF next = ")"
    THEN [result |-> Create(start_position, "Symbol", <<>>, "RightParen", after),
          position |-> after, sent_eof |-> sent_eof]
    ELSE [result |-> [kind |-> "Err",
                      error |-> [error |-> <<"UnexpectedToken", next>>, position |-> after]],
          position |-> after, sent_eof |-> sent_eof]

RECURSIVE RawFrom(_, _, _)
\* The results of calling process_next until it returns None.
RawFrom(src, position, sent_eof) ==
    LET r == ProcessNext(src, position, sent_eof) IN
    IF r.result = Nothing THEN <<>>
    ELSE <<r.result>> \o RawFrom(src, r.position, r.sent_eof)

\* The raw results of the lexer for src, in order.
RawTokens(src) == RawFrom(src, StartPosition, FALSE)

(***************************************************************************)
(* Token references: a token with its leading and trailing trivia.         *)
(***************************************************************************)
\* TokenReference::new
TokenReference(leading_trivia, token, trailing_trivia) ==
    [leading_trivia |-> leading_trivia, token |-> token, trailing_trivia |-> trailing_trivia]

RECURSIVE JoinTokens(_)
\* `for trivia in &self.leading_trivia { trivia.fmt(formatter)?; }`
JoinTokens(tokens) ==
    IF tokens = <<>> THEN <<>>
    ELSE TokenDisplay(Head(tokens)) \o JoinTokens(Tail(tokens))

\* impl Display for TokenReference: leading trivia, then the token, then trailing trivia.
TokenReferenceDisplay(reference) ==
    JoinTokens(reference.leading_trivia) \o TokenDisplay(reference.token)
        \o JoinTokens(reference.trailing_trivia)

\* TokenReference::is_symbol
is_symbol(reference, symbol) ==
    reference.token.kind = "Symbol" /\ reference.token.symbol = symbol

\* Position::default(): the null position of a token made outside the source.
NullPosition == [bytes |-> 0, line |-> 0, character |-> 0]

\* TokenReference::basic_symbol: a symbol made by the parser rather than read.
BasicSymbol(symbol) ==
    TokenReference(<<>>, Token("Symbol", <<>>, symbol, NullPosition, NullPosition), <<>>)

(***************************************************************************)
(* The lexer as the parser sees it: results carrying token references.  A  *)
(* result is Ok(token), Recovered(token, errors) or Fatal(errors).         *)
(***************************************************************************)
LexOk(reference) == [kind |-> "Ok", token |-> reference, errors |-> <<>>]
LexRecovered(reference, errs) == [kind |-> "Recovered", token |-> reference, errors |-> errs]
LexFatal(errs) == [kind |-> "Fatal", token |-> Nothing, errors |-> errs]

\* Whether a raw result is a trivia token.
IsTrivia(r) == r.kind = "Ok" /\ r.token.kind = "Whitespace"

RECURSIVE SkipTrivia(_, _)
\* The index of the first result of raw at or after i that is not trivia.
SkipTrivia(raw, i) ==
    IF i <= Len(raw) /\ IsTrivia(raw[i]) THEN SkipTrivia(raw, i + 1) ELSE i

RECURSIVE TrailingEnd(_, _)
\* The index after the trailing trivia that starts at i: trivia up to and
\* including the first token that holds a newline.
TrailingEnd(raw, i) ==
    IF i <= Len(raw) /\ IsTrivia(raw[i])
    THEN IF \E k \in 1..Len(raw[i].token.text) : raw[i].token.text[k] = "\n"
         THEN i + 1
         ELSE TrailingEnd(raw, i + 1)
    ELSE i

\* The tokens of the results raw[from..to].
TokensOf(raw, from, to) == [k \in 1..(to - from + 1) |-> raw[from + k - 1].token]

RECURSIVE WithTrivia(_, _)
\* The results of the lexer from raw result i on: each token takes the trivia
\* before it as leading trivia and the trivia after it on its line as trailing
\* trivia; a tokenizer error gives a Fatal result.
WithTrivia(raw, i) ==
    IF i > Len(raw) THEN <<>>
    ELSE LET j == SkipTrivia(raw, i) IN
         IF j > Len(raw) THEN <<>>
         ELSE IF raw[j].kind = "Err"
         THEN <<LexFatal(<<raw[j].error>>)>> \o WithTrivia(raw, j + 1)
         ELSE LET k == IF raw[j].token.kind = "Eof" THEN j + 1 ELSE TrailingEnd(raw, j + 1)
              IN <<LexOk(TokenReference(TokensOf(raw, i, j - 1), raw[j].token,
                                        TokensOf(raw, j + 1, k - 1)))>>
                 \o WithTrivia(raw, k)

\* Lexer::new(code), as the sequence of results it will yield.
Lex(code) == WithTrivia(RawTokens(code), 1)

\* The tokenizer error of a token that was read with a local defect.
DefectOf(reference) ==
    [error |-> <<"InvalidNumber">>, position |-> reference.token.start_position]

\* results with result m, when it is Ok, made Recovered (m = 0: none).
WithDefect(results, m) ==
    IF m \in 1..Len(results) /\ results[m].kind = "Ok"
    THEN [results EXCEPT ![m] = LexRecovered(results[m].token, <<DefectOf(results[m].token)>>)]
    ELSE results

\* Lexer::current: the result at the cursor, if any.
LexerCurrent(p) == IF p \in 1..Len(slots) THEN slots[p] ELSE Nothing

\* Lexer::peek: the result after the one at the cursor, if any.
LexerPeek(p) == IF p + 1 \in 1..Len(slots) THEN slots[p + 1] ELSE Nothing

\* Lexer::next / consume: [result, pos]: the result at the cursor, and the cursor
\* moved past it; None, and the cursor where it was, when there is none.
LexerConsume(p) ==
    IF p \in 1..Len(slots) THEN [result |-> slots[p], pos |-> p + 1]
    ELSE [result |-> Nothing, pos |-> p]

(***************************************************************************)
(* Diagnostics.                                                            *)
(***************************************************************************)
\* crate::Error::TokenizerError(error)
TokenizerError(error) == [type |-> "TokenizerError", error |-> error]

\* crate::Error::AstError(AstError { token, additional, range })
AstError(token, additional, range) ==
    [type |-> "AstError", token |-> token, additional |-> additional, range |-> range]

\* A plausible slip in recording tokenizer errors: they are dropped.
PushTokenizerErrorsDropped(errs, tokenizer_errors) == errs

\* `for error in errors { self.errors.push(crate::Error::TokenizerError(error)); }`
PushTokenizerErrors(errs, tokenizer_errors) ==
    errs \o [k \in 1..Len(tokenizer_errors) |-> TokenizerError(tokenizer_errors[k])]

(***************************************************************************)
(* ParserState.  A state st is [pos, errors, panic, log]: the lexer        *)
(* cursor, the diagnostics, the panic raised so far ("" for none) and the  *)
(* operations applied, each with its pre- and post-state.  An operation    *)
(* returns [st, ret].                                                      *)
(***************************************************************************)
\* ParserState::new
NewState(p, errs) == [pos |-> p, errors |-> errs, panic |-> "", log |-> <<>>]

\* ParserResult
Value(v) == [kind |-> "Value", value |-> v]
LexerMoved == [kind |-> "LexerMoved", value |-> Nothing]
NotFound == [kind |-> "NotFound", value |-> Nothing]
\* Option<TokenReference> / Result<&TokenReference, ()> of the helper operations
Some(v) == [kind |-> "Some", value |-> v]
NoToken == [kind |-> "None", value |-> Nothing]

\* The value of F at v, with v computed once: `let x = v; F(x)`.
Bind(v, F(_)) == CHOOSE r \in {F(x) : x \in {v}} : TRUE

\* One entry of the operation log.
Logged(op, symbol, message, st, out) ==
    [st |-> [out.st EXCEPT !.log = Append(out.st.log,
                [op |-> op, symbol |-> symbol, message |-> message,
                 pre_pos |-> st.pos, pre_errors |-> st.errors,
                 post_pos |-> out.st.pos, post_errors |-> out.st.errors,
                 ret |-> out.ret, panic |-> out.st.panic])],
     ret |-> out.ret]

\* A panic: the state keeps the first panic raised.
Panic(st, message) == [st EXCEPT !.panic = IF st.panic = "" THEN message ELSE st.panic]

\* ParserState::current: Some(token) for an Ok or Recovered slot, None (Err) for
\* a Fatal slot; it panics past EOF.
StateCurrent(st) ==
    LET slot == LexerCurrent(st.pos) IN
    IF slot.kind \in {"Ok", "Recovered"} THEN [st |-> st, ret |-> Some(slot.token)]
    ELSE IF slot.kind = "Fatal" THEN [st |-> st, ret |-> NoToken]
    ELSE [st |-> Panic(st, "current() called past EOF"), ret |-> NoToken]

\* ParserState::peek
StatePeek(st) ==
    LET slot == LexerPeek(st.pos) IN
    IF slot.kind \in {"Ok", "Recovered"} THEN [st |-> st, ret |-> Some(slot.token)]
    ELSE IF slot.kind = "Fatal" THEN [st |-> st, ret |-> NoToken]
    ELSE [st |-> Panic(st, "peek() called past EOF"), ret |-> NoToken]

\* A plausible slip in consume: a Recovered token is dropped like a Fatal one.
ConsumeBodyDropsRecovered(st) ==
    Bind(LexerConsume(st.pos), LAMBDA c :
        IF c.result.kind = "Ok"
        THEN [st |-> [st EXCEPT !.pos = c.pos], ret |-> Value(c.result.token)]
        ELSE IF c.result.kind \in {"Recovered", "Fatal"}
        THEN [st |-> [st EXCEPT !.pos = c.pos,
                                !.errors = PushTokenizerErrors(st.errors, c.result.errors)],
              ret |-> LexerMoved]
        ELSE [st |-> st, ret |-> NotFound])

\* A plausible slip in consume: only the first tokenizer error is recorded.
ConsumeBodyFirstErrorOnly(st) ==
    Bind(LexerConsume(st.pos), LAMBDA c :
        IF c.result.kind = "Ok"
        THEN [st |-> [st EXCEPT !.pos = c.pos], ret |-> Value(c.result.token)]
        ELSE IF c.result.kind \in {"Recovered", "Fatal"}
        THEN [st |-> [st EXCEPT !.pos = c.pos,
                                !.errors = PushTokenizerErrors(st.errors,
                                               SubSeq(c.result.errors, 1, 1))],
              ret |-> IF c.result.kind = "Recovered" THEN Value(c.result.token)
                      ELSE LexerMoved]
        ELSE [st |-> st, ret |-> NotFound])

\* The body of ParserState::consume.
ConsumeBody(st) ==
    Bind(LexerConsume(st.pos), LAMBDA c :
        IF c.result.kind = "Ok"
        THEN [st |-> [st EXCEPT !.pos = c.pos], ret |-> Value(c.result.token)]
        ELSE IF c.result.kind = "Recovered"
        THEN [st |-> [st EXCEPT !.pos = c.pos,
                                !.errors = PushTokenizerErrors(st.errors, c.result.errors)],
              ret |-> Value(c.result.token)]
        ELSE IF c.result.kind = "Fatal"
        THEN [st |-> [st EXCEPT !.pos = c.pos,
                                !.errors = PushTokenizerErrors(st.errors, c.result.errors)],
              ret |-> LexerMoved]
        ELSE [st |-> st, ret |-> NotFound])

\* ParserState::consume
Consume(st) == Bind(ConsumeBody(st), LAMBDA out : Logged("consume", None, None, st, out))

\* ParserResult::unwrap of the result out: the value, or a panic.
UnwrapResult(out) ==
    IF out.ret.kind = "Value" THEN [st |-> out.st, ret |-> Some(out.ret.value)]
    ELSE [st |-> Panic(out.st, "unwrap() called on a result that is not a value"),
          ret |-> NoToken]

\* `self.consume().unwrap()`
ConsumeUnwrap(st) == Bind(Consume(st), LAMBDA out : UnwrapResult(out))

\* A plausible slip in token_error: the new diagnostic takes the place of the
\* last one.
TokenErrorOverwrites(st, token_reference, error) ==
    [st EXCEPT !.errors =
        SubSeq(st.errors, 1, Len(st.errors) - 1)
            \o <<AstError(token_reference.token, error, Nothing)>>]

\* ParserState::token_error: the state with one more AstError, without a range.
TokenError(st, token_reference, error) ==
    [st EXCEPT !.errors = Append(st.errors, AstError(token_reference.token, error, Nothing))]

\* A plausible slip in token_error_ranged: the range is the anchor token's.
TokenErrorRangedAtAnchor(st, token_reference, error, start_token, end_token) ==
    [st EXCEPT !.errors = Append(st.errors,
        AstError(token_reference.token, error,
                 [kind |-> "Some", start |-> token_reference.token.start_position,
                  end |-> token_reference.token.end_position]))]

\* ParserState::token_error_ranged
TokenErrorRanged(st, token_reference, error, start_token, end_token) ==
    [st EXCEPT !.errors = Append(st.errors,
        AstError(token_reference.token, error,
                 [kind |-> "Some", start |-> start_token.token.start_position,
                  end |-> end_token.token.end_position]))]

\* A plausible slip in consume_if: the token is consumed whatever it is.
ConsumeIfBodyAnyToken(st, symbol) ==
    Bind(StateCurrent(st), LAMBDA cur :
        IF cur.ret.kind = "Some" THEN ConsumeUnwrap(cur.st) ELSE cur)

\* The body of ParserState::consume_if.
ConsumeIfBody(st, symbol) ==
    Bind(StateCurrent(st), LAMBDA cur :
        IF cur.ret.kind = "Some"
        THEN IF is_symbol(cur.ret.value, symbol)
             THEN ConsumeUnwrap(cur.st)
             ELSE [st |-> cur.st, ret |-> NoToken]
        ELSE cur)

\* ParserState::consume_if
ConsumeIf(st, symbol) ==
    Bind(ConsumeIfBody(st, symbol), LAMBDA out : Logged("consume_if", symbol, None, st, out))

\* A plausible slip in require: the token is consumed on a mismatch too.
RequireBodySkipsToken(st, symbol, error) ==
    Bind(StateCurrent(st), LAMBDA cur :
        IF cur.ret.kind = "Some"
        THEN IF is_symbol(cur.ret.value, symbol)
             THEN ConsumeUnwrap(cur.st)
             ELSE [st |-> [TokenError(cur.st, cur.ret.value, error) EXCEPT !.pos = st.pos + 1],
                   ret |-> NoToken]
        ELSE cur)

\* The body of ParserState::require.
RequireBody(st, symbol, error) ==
    Bind(StateCurrent(st), LAMBDA cur :
        IF cur.ret.kind = "Some"
        THEN IF is_symbol(cur.ret.value, symbol)
             THEN ConsumeUnwrap(cur.st)
             ELSE [st |-> TokenError(cur.st, cur.ret.value, error), ret |-> NoToken]
        ELSE cur)

\* ParserState::require
Require(st, symbol, error) ==
    Bind(RequireBody(st, symbol, error), LAMBDA out : Logged("require", symbol, error, st, out))

\* One entry of the operation log for an operation given reference tokens.
LoggedWithReferences(op, symbol, message, references, st, out) ==
    [st |-> [out.st EXCEPT !.log = Append(out.st.log,
                [op |-> op, symbol |-> symbol, message |-> message,
                 references |-> references,
                 pre_pos |-> st.pos, pre_errors |-> st.errors,
                 post_pos |-> out.st.pos, post_errors |-> out.st.errors,
                 ret |-> out.ret, panic |-> out.st.panic])],
     ret |-> out.ret]

\* The body of ParserState::require_with_reference_token.
RequireWithReferenceTokenBody(st, symbol, error, reference_token) ==
    Bind(StateCurrent(st), LAMBDA cur :
        IF cur.ret.kind = "Some"
        THEN IF is_symbol(cur.ret.value, symbol)
             THEN ConsumeUnwrap(cur.st)
             ELSE [st |-> TokenError(cur.st, reference_token, error), ret |-> NoToken]
        ELSE cur)

\* ParserState::require_with_reference_token
RequireWithReferenceToken(st, symbol, error, reference_token) ==
    Bind(RequireWithReferenceTokenBody(st, symbol, error, reference_token), LAMBDA out :
        LoggedWithReferences("require_with_reference_token", symbol, error,
                             <<reference_token>>, st, out))

\* The body of ParserState::require_with_reference_range.
RequireWithReferenceRangeBody(st, symbol, error, start_token, end_token) ==
    Bind(StateCurrent(st), LAMBDA cur :
        IF cur.ret.kind = "Some"
        THEN IF is_symbol(cur.ret.value, symbol)
             THEN ConsumeUnwrap(cur.st)
             ELSE [st |-> TokenErrorRanged(cur.st, cur.ret.value, error, start_token, end_token),
                   ret |-> NoToken]
        ELSE cur)

\* ParserState::require_with_reference_range
RequireWithReferenceRange(st, symbol, error, start_token, end_token) ==
    Bind(RequireWithReferenceRangeBody(st, symbol, error, start_token, end_token), LAMBDA out :
        LoggedWithReferences("require_with_reference_range", symbol, error,
                             <<start_token, end_token>>, st, out))

\* The body of ParserState::require_with_reference_range_callback: tokens is
\* the pair the callback returns, asked for on a mismatch only.
RequireWithReferenceRangeCallbackBody(st, symbol, error, tokens) ==
    Bind(StateCurrent(st), LAMBDA cur :
        IF cur.ret.kind = "Some"
        THEN IF is_symbol(cur.ret.value, symbol)
             THEN ConsumeUnwrap(cur.st)
             ELSE [st |-> TokenErrorRanged(cur.st, cur.ret.value, error, tokens[1], tokens[2]),
                   ret |-> NoToken]
        ELSE cur)

\* ParserState::require_with_reference_range_callback
RequireWithReferenceRangeCallback(st, symbol, error, tokens) ==
    Bind(RequireWithReferenceRangeCallbackBody(st, symbol, error, tokens), LAMBDA out :
        LoggedWithReferences("require_with_reference_range_callback", symbol, error,
                             tokens, st, out))

\* AstError::range: the explicit range if set, else the anchor token's.
AstErrorRange(error) ==
    IF error.range # Nothing THEN <<error.range.start, error.range.end>>
    ELSE <<error.token.start_position, error.token.end_position>>

(***************************************************************************)
(* Blocks.  A statement is held as its kind and its tokens in document     *)
(* order; a block is its statements, each with an optional semicolon, and  *)
(* an optional last statement with an optional semicolon.                  *)
(***************************************************************************)
\* Block::new
BlockNew == [stmts |-> <<>>, last_stmt |-> Nothing]

Stmt(kind, tokens) == [kind |-> kind, tokens |-> tokens]

\* Block::merge_blocks
merge_blocks(self, other) ==
    [stmts |-> self.stmts \o other.stmts,
     last_stmt |-> IF self.last_stmt = Nothing THEN other.last_stmt ELSE self.last_stmt]

RECURSIVE JoinReferences(_)
\* The text of the token references of a node, in document order.
JoinReferences(references) ==
    IF references = <<>> THEN <<>>
    ELSE TokenReferenceDisplay(Head(references)) \o JoinReferences(Tail(references))

\* display_option
display_option(option) == IF option = Nothing THEN <<>> ELSE TokenReferenceDisplay(option)

\* display_optional_punctuated: "{}{}" of a node and its optional semicolon.
display_optional_punctuated(pair) ==
    JoinReferences(pair.node.tokens) \o display_option(pair.semicolon)

RECURSIVE display_optional_punctuated_vec(_)
display_optional_punctuated_vec(stmts) ==
    IF stmts = <<>> THEN <<>>
    ELSE display_optional_punctuated(Head(stmts)) \o display_optional_punctuated_vec(Tail(stmts))

\* impl Display for Block
BlockDisplay(b) ==
    display_optional_punctuated_vec(b.stmts)
        \o (IF b.last_stmt = Nothing THEN <<>> ELSE display_optional_punctuated(b.last_stmt))

\* full_moon::print: format!("{}{}", ast.nodes(), ast.eof())
print(ast) == BlockDisplay(ast.nodes) \o TokenReferenceDisplay(ast.eof)

(***************************************************************************)
(* The block parser, for a grammar of three statement forms: the call      *)
(* `name ( )`, the assignment `name = value [== value]` and the last       *)
(* statement `break`.                                                      *)
(***************************************************************************)
ExpectedRightParen == "expected ) to close function call"
ExpectedValue == "expected values to set to"
ExpectedOperand == "expected expression after binary operator"
UnexpectedExpression == "unexpected expression when looking for a statement"

\* The messages of the grammar's diagnostics.
GrammarMessages == {ExpectedRightParen, ExpectedValue, ExpectedOperand, UnexpectedExpression}

\* Whether the current token can start a value.
AtValue(st) ==
    \E cur \in {StateCurrent(st)} :
        cur.ret.kind = "Some" /\ cur.ret.value.token.kind \in {"Identifier", "Number"}

\* The state after a diagnostic at the current token, if it is readable.
ErrorAtCurrent(st, error) ==
    Bind(StateCurrent(st), LAMBDA cur :
        IF cur.ret.kind = "Some" THEN TokenError(cur.st, cur.ret.value, error) ELSE cur.st)

\* The right operand of `==`, after the operand lhs and the operator op.
ParseOperand(lhs, op) ==
    IF AtValue(op.st)
    THEN Bind(ConsumeUnwrap(op.st), LAMBDA rhs :
             [st |-> rhs.st, ret |-> Value(<<lhs.ret.value, op.ret.value, rhs.ret.value>>)])
    ELSE [st |-> ErrorAtCurrent(op.st, ExpectedOperand),
          ret |-> Value(<<lhs.ret.value, op.ret.value>>)]

\* parse_expression: one value, then `== value` if it follows.
ParseExpression(st) ==
    IF ~AtValue(st) THEN [st |-> st, ret |-> NotFound]
    ELSE Bind(ConsumeUnwrap(st), LAMBDA lhs :
         Bind(ConsumeIf(lhs.st, "TwoEqual"), LAMBDA op :
             IF op.ret.kind = "Some" THEN ParseOperand(lhs, op)
             ELSE [st |-> op.st, ret |-> Value(<<lhs.ret.value>>)]))

\* The call `name ( )`, after the name and the left parenthesis.
ParseCall(name, left) ==
    Bind(Require(left.st, "RightParen", ExpectedRightParen), LAMBDA right :
        [st |-> right.st,
         ret |-> Value(Stmt("FunctionCall",
                    <<name.ret.value, left.ret.value,
                      IF right.ret.kind = "Some" THEN right.ret.value
                      ELSE BasicSymbol("RightParen")>>))])

\* The assignment `name = value`, after the name and the equal sign.
ParseAssignment(name, equal) ==
    Bind(ParseExpression(equal.st), LAMBDA expr :
        IF expr.ret.kind = "Value"
        THEN [st |-> expr.st,
              ret |-> Value(Stmt("Assignment",
                                 <<name.ret.value, equal.ret.value>> \o expr.ret.value))]
        ELSE [st |-> ErrorAtCurrent(expr.st, ExpectedValue), ret |-> LexerMoved])

\* A statement, after its first name.
ParseAfterName(name) ==
    Bind(ConsumeIf(name.st, "LeftParen"), LAMBDA left :
        IF left.ret.kind = "Some" THEN ParseCall(name, left)
        ELSE Bind(ConsumeIf(left.st, "Equal"), LAMBDA equal :
                 IF equal.ret.kind = "Some" THEN ParseAssignment(name, equal)
                 ELSE [st |-> ErrorAtCurrent(equal.st, UnexpectedExpression),
                       ret |-> LexerMoved]))

\* parse_stmt: a statement starting at an identifier.
ParseStmt(st) ==
    Bind(StateCurrent(st), LAMBDA cur :
        IF cur.ret.kind = "Some" /\ cur.ret.value.token.kind = "Identifier"
        THEN Bind(ConsumeUnwrap(cur.st), LAMBDA name : ParseAfterName(name))
        ELSE [st |-> cur.st, ret |-> NotFound])

\* parse_last_stmt: `break`.
ParseLastStmt(st) ==
    Bind(StateCurrent(st), LAMBDA cur :
        IF cur.ret.kind = "Some" /\ is_symbol(cur.ret.value, "Break")
        THEN Bind(ConsumeUnwrap(cur.st), LAMBDA token :
                 [st |-> token.st, ret |-> Value(Stmt("Break", <<token.ret.value>>))])
        ELSE [st |-> cur.st, ret |-> NotFound])

\* The end of parse_block: the optional last statement, then the block.
FinishBlock(st, stmts) ==
    Bind(ParseLastStmt(st), LAMBDA last :
        IF last.ret.kind = "Value"
        THEN Bind(ConsumeIf(last.st, "Semicolon"), LAMBDA semicolon :
                 [st |-> semicolon.st,
                  ret |-> Value([stmts |-> stmts,
                                 last_stmt |-> [node |-> last.ret.value,
                                                semicolon |-> semicolon.ret.value]])])
        ELSE [st |-> last.st, ret |-> Value([stmts |-> stmts, last_stmt |-> Nothing])])

RECURSIVE ParseBlockFrom(_, _)
\* The loop of parse_block: statements while one is found.
ParseBlockFrom(st, stmts) ==
    Bind(ParseStmt(st), LAMBDA stmt :
        IF stmt.ret.kind = "Value"
        THEN Bind(ConsumeIf(stmt.st, "Semicolon"), LAMBDA semicolon :
             Bind(Append(stmts, [node |-> stmt.ret.value, semicolon |-> semicolon.ret.value]),
                  LAMBDA more : ParseBlockFrom(semicolon.st, more)))
        ELSE IF stmt.ret.kind = "LexerMoved" /\ stmts = <<>>
        THEN [st |-> stmt.st, ret |-> LexerMoved]
        ELSE FinishBlock(stmt.st, stmts))

\* parse_block
parse_block(st) == ParseBlockFrom(st, <<>>)

(***************************************************************************)
(* The recovery driver, AstResult::parse_fallible, and the strict entry    *)
(* point.  pc is the driver's position: "start", "loop", "eof",            *)
(* "returned", "done", or "panic".  obs records the last step taken: what  *)
(* the block parser returned and the state the step started from.          *)
(***************************************************************************)
UNEXPECTED_TOKEN_ERROR == "unexpected token, this needs to be a statement"

\* Whether a lexer result is an Ok Eof token (the guard of the first loop arm).
IsOkEof(slot) == slot.kind = "Ok" /\ slot.token.token.kind = "Eof"

\* Whether the last diagnostic is the driver's generic AstError.
LastIsUnexpectedToken(errs) ==
    /\ errs # <<>>
    /\ errs[Len(errs)].type = "AstError"
    /\ errs[Len(errs)].additional = UNEXPECTED_TOKEN_ERROR

\* A plausible slip in the driver: the generic diagnostic is never suppressed.
DiscardTokenAlwaysReports(st) ==
    Bind(Consume(st), LAMBDA c :
        IF c.ret.kind = "Value" THEN TokenError(c.st, c.ret.value, UNEXPECTED_TOKEN_ERROR)
        ELSE IF c.ret.kind = "LexerMoved" THEN c.st
        ELSE Panic(c.st, "unreachable"))

\* `match parser_state.consume()` of the loop: one token is consumed; a generic
\* diagnostic is recorded at it unless the last diagnostic is already that one.
DiscardToken(st) ==
    Bind(Consume(st), LAMBDA c :
        IF c.ret.kind = "Value"
        THEN IF LastIsUnexpectedToken(c.st.errors) THEN c.st
             ELSE TokenError(c.st, c.ret.value, UNEXPECTED_TOKEN_ERROR)
        ELSE IF c.ret.kind = "LexerMoved" THEN c.st
        ELSE Panic(c.st, "unreachable"))

\* The parser state, written back to the variables; next is the driver's next
\* position unless the state panicked.
Commit(st, next) ==
    /\ pos' = st.pos
    /\ errors' = st.errors
    /\ oplog' = st.log
    /\ pc' = IF st.panic # "" THEN "panic" ELSE next

\* The record of a driver step.
Observe(step, ret) ==
    [step |-> step, ret |-> ret, pos0 |-> pos, errors0 |-> errors, block0 |-> block]

\* `let mut block = match parse_block(..) { Value(block) => block, _ => Block::new() }`
Start ==
    /\ pc = "start"
    /\ \E out \in {parse_block(NewState(pos, errors))} :
          /\ block' = IF out.ret.kind = "Value" THEN out.ret.value ELSE BlockNew
          /\ Commit(out.st, "loop")
          /\ obs' = Observe("start", out.ret)
    /\ UNCHANGED <<source, slots, eof, result, pairs>> /\ UNCHANGED walk

\* The arms of the loop that leave it: an Ok Eof token, or no token at all.
LoopBreak ==
    /\ pc = "loop"
    /\ IsOkEof(LexerCurrent(pos)) \/ LexerCurrent(pos) = Nothing
    /\ pc' = "eof"
    /\ obs' = Observe("break", NotFound)
    /\ UNCHANGED <<source, slots, pos, errors, block, eof, result, oplog, pairs>> /\ UNCHANGED walk

\* `new_block.stmts.is_empty()`
FragmentIsEmpty(new_block) == new_block.stmts = <<>>

\* The body of the loop's second arm, for the result out of the block parser.
LoopParseWith(out) ==
    /\ IF out.ret.kind = "Value"
       THEN IF FragmentIsEmpty(out.ret.value)
            THEN \E cur \in {StateCurrent(out.st)} :
                    IF cur.ret.kind = "Some" /\ cur.ret.value.token.kind = "Eof"
                    THEN block' = block /\ Commit(cur.st, "eof")
                    ELSE /\ block' = block
                         /\ \E st \in {DiscardToken(out.st)} : Commit(st, "loop")
            ELSE block' = merge_blocks(block, out.ret.value) /\ Commit(out.st, "loop")
       ELSE block' = block /\ Commit(out.st, "loop")
    /\ obs' = Observe("parse", out.ret)

\* The loop's second arm: the current token is readable and not an Ok Eof.
LoopParse ==
    /\ pc = "loop"
    /\ LexerCurrent(pos).kind \in {"Ok", "Recovered"}
    /\ ~IsOkEof(LexerCurrent(pos))
    /\ \E out \in {parse_block(NewState(pos, errors))} : LoopParseWith(out)
    /\ UNCHANGED <<source, slots, eof, result, pairs>> /\ UNCHANGED walk

\* The loop's second arm when the block parser finds nothing and leaves the
\* lexer where it is (ParserResult::NotFound).
LoopParseNotFound ==
    /\ pc = "loop"
    /\ LexerCurrent(pos).kind \in {"Ok", "Recovered"}
    /\ ~IsOkEof(LexerCurrent(pos))
    /\ \E out \in {[st |-> NewState(pos, errors), ret |-> NotFound]} : LoopParseWith(out)
    /\ UNCHANGED <<source, slots, eof, result, pairs>> /\ UNCHANGED walk

\* The loop's third arm: a Fatal result is consumed and its errors recorded.
LoopFatal ==
    /\ pc = "loop"
    /\ LexerCurrent(pos).kind = "Fatal"
    /\ LET c == LexerConsume(pos) IN
       /\ pos' = c.pos
       /\ errors' = PushTokenizerErrors(errors, c.result.errors)
    /\ pc' = "loop"
    /\ obs' = Observe("fatal", LexerMoved)
    /\ UNCHANGED <<source, slots, block, eof, result, oplog, pairs>> /\ UNCHANGED walk

\* `let eof = match parser_state.lexer.consume().unwrap() { .. }`
ConsumeEof ==
    /\ pc = "eof"
    /\ LET c == LexerConsume(pos) IN
       /\ pos' = c.pos
       /\ IF c.result.kind = "Ok"
          THEN eof' = c.result.token /\ errors' = errors /\ pc' = "returned"
          ELSE IF c.result.kind = "Recovered"
          THEN /\ eof' = c.result.token
               /\ errors' = PushTokenizerErrors(errors, c.result.errors)
               /\ pc' = "returned"
          ELSE eof' = eof /\ errors' = errors /\ pc' = "panic"
    /\ obs' = Observe("eof", NotFound)
    /\ UNCHANGED <<source, slots, block, result, oplog, pairs>> /\ UNCHANGED walk

\* A plausible slip in the conversion: one diagnostic is still a success.
IntoResultLenient(ast, errs) ==
    IF Len(errs) <= 1 THEN [kind |-> "Ok", ast |-> ast, errors |-> <<>>]
    ELSE [kind |-> "Err", ast |-> Nothing, errors |-> errs]

\* impl From<AstResult> for Result<Ast, Vec<Error>>
IntoResult(ast, errs) ==
    IF errs = <<>> THEN [kind |-> "Ok", ast |-> ast, errors |-> <<>>]
    ELSE [kind |-> "Err", ast |-> Nothing, errors |-> errs]

\* The Ast that parse_fallible returns.
Ast == [nodes |-> block, eof |-> eof]

\* full_moon::parse: parse_fallible(code).into_result()
Parse ==
    /\ pc = "returned"
    /\ result' = IntoResult(Ast, errors)
    /\ pc' = "done"
    /\ UNCHANGED <<source, slots, pos, errors, block, eof, oplog, obs, pairs>> /\ UNCHANGED walk

(***************************************************************************)
(* The sources parsed: every concatenation of at most MaxWords words, each *)
(* lexed as the lexer lexes it, with at most one token read with a defect. *)
(***************************************************************************)
Words ==
    { <<"a">>, <<"(">>, <<")">>, <<"=">>, <<" ">>, <<"\n">>, <<"?">>, <<"1">>,
      <<"b", "r", "e", "a", "k">>, <<"a", "(", ")">> }

RECURSIVE Sources(_)
Sources(n) ==
    IF n = 0 THEN {<<>>}
    ELSE Sources(n - 1) \cup {s \o w : s \in Sources(n - 1), w \in Words}

Init ==
    /\ source \in Sources(MaxWords)
    /\ slots \in {WithDefect(Lex(source), m) : m \in 0..(MaxWords + 1)}
    /\ pc = "start" /\ pos = 1 /\ errors = <<>> /\ block = Nothing /\ eof = Nothing
    /\ result = Nothing /\ oplog = <<>> /\ obs = Nothing /\ pairs = <<>>
    /\ lexer = Nothing /\ root = Nothing /\ items = <<>> /\ taken = Nothing
    /\ lua_version = {}

Next ==
    \/ Start
    \/ LoopBreak
    \/ LoopParse
    \/ LoopFatal
    \/ ConsumeEof
    \/ Parse

Spec == Init /\ [][Next]_vars

\* The driver over a block parser that may also find nothing.
NextAnyResult == Next \/ LoopParseNotFound

SpecAnyResult == Init /\ [][NextAnyResult]_vars
(***************************************************************************)
(* The operations of ParserState, applied in any order to any stream of    *)
(* lexer results of at most MaxOpSlots results.  The stream's result i     *)
(* holds a token at byte i - 1; past the last result the stream is         *)
(* exhausted.  oplog is the log of the last operation applied.             *)
(***************************************************************************)
OpKinds == {"LeftParen", "RightParen", "Name", "RecoveredRightParen", "RecoveredName", "Fatal"}

OpSymbols == {"LeftParen", "RightParen"}

OpMessages == {"expected (", "expected )"}

\* The position of result i of a stream.
OpPosition(i) == [bytes |-> i - 1, line |-> 1, character |-> i]

\* The tokenizer errors of a defective result at i: n of them.
OpErrors(i, n) ==
    [k \in 1..n |-> [error |-> IF k = 1 THEN <<"UnclosedString">> ELSE <<"InvalidNumber">>,
                     position |-> OpPosition(i)]]

\* The token reference of a result of the given kind at i.
OpToken(kind, i) ==
    IF kind \in {"LeftParen", "RightParen", "RecoveredRightParen"}
    THEN LET symbol == IF kind = "LeftParen" THEN "LeftParen" ELSE "RightParen"
         IN TokenReference(<<>>, Token("Symbol", <<>>, symbol, OpPosition(i), OpPosition(i + 1)), <<>>)
    ELSE TokenReference(<<>>, Token("Identifier", <<"a">>, None, OpPosition(i), OpPosition(i + 1)), <<>>)

\* The lexer result of the given kind at i.
OpSlot(kind, i) ==
    IF kind \in {"LeftParen", "RightParen", "Name"} THEN LexOk(OpToken(kind, i))
    ELSE IF kind = "RecoveredRightParen" THEN LexRecovered(OpToken(kind, i), OpErrors(i, 2))
    ELSE IF kind = "RecoveredName" THEN LexRecovered(OpToken(kind, i), OpErrors(i, 1))
    ELSE LexFatal(OpErrors(i, 2))

\* The streams of at most MaxOpSlots results.
OpStreams ==
    UNION {{[i \in 1..n |-> OpSlot(kinds[i], i)] : kinds \in [1..n -> OpKinds]} : n \in 0..MaxOpSlots}

InitOps ==
    /\ slots \in OpStreams
    /\ pc = "ops" /\ pos = 1 /\ errors = <<>> /\ oplog = <<>>
    /\ source = <<>> /\ block = Nothing /\ eof = Nothing
    /\ result = Nothing /\ obs = Nothing /\ pairs = <<>>
    /\ lexer = Nothing /\ root = Nothing /\ items = <<>> /\ taken = Nothing
    /\ lua_version = {}

\* An operation applied to the state held in the variables.
Applied(out) ==
    /\ Commit(out.st, "ops")
    /\ UNCHANGED <<source, slots, block, eof, result, obs, pairs>> /\ UNCHANGED walk

OpConsume ==
    /\ pc = "ops" /\ Len(errors) < MaxErrors
    /\ \E out \in {Consume(NewState(pos, errors))} : Applied(out)

OpConsumeIf ==
    /\ pc = "ops" /\ Len(errors) < MaxErrors
    /\ \E symbol \in OpSymbols :
          \E out \in {ConsumeIf(NewState(pos, errors), symbol)} : Applied(out)

OpRequire ==
    /\ pc = "ops" /\ Len(errors) < MaxErrors
    /\ \E symbol \in OpSymbols, error \in OpMessages :
          \E out \in {Require(NewState(pos, errors), symbol, error)} : Applied(out)

NextOps == OpConsume \/ OpConsumeIf \/ OpRequire

SpecOps == InitOps /\ [][NextOps]_vars

\* The tokens a caller hands to the require family: two tokens read before
\* the stream's.
OpReferences == {OpToken("LeftParen", MaxOpSlots + 1), OpToken("Name", MaxOpSlots + 2)}

\* The (start, end) pairs a caller hands to the require family.
OpRanges ==
    { <<OpToken("LeftParen", MaxOpSlots + 1), OpToken("LeftParen", MaxOpSlots + 1)>>,
      <<OpToken("LeftParen", MaxOpSlots + 1), OpToken("Name", MaxOpSlots + 2)>> }

OpRequireWithReferenceToken ==
    /\ pc = "ops" /\ Len(errors) < MaxErrors
    /\ \E symbol \in OpSymbols, reference_token \in OpReferences :
          \E out \in {RequireWithReferenceToken(NewState(pos, errors), symbol,
                                                "expected )", reference_token)} :
             Applied(out)

OpRequireWithReferenceRange ==
    /\ pc = "ops" /\ Len(errors) < MaxErrors
    /\ \E symbol \in OpSymbols, tokens \in OpRanges :
          \E out \in {RequireWithReferenceRange(NewState(pos, errors), symbol,
                                                "expected )", tokens[1], tokens[2])} :
             Applied(out)

OpRequireWithReferenceRangeCallback ==
    /\ pc = "ops" /\ Len(errors) < MaxErrors
    /\ \E symbol \in OpSymbols, tokens \in OpRanges :
          \E out \in {RequireWithReferenceRangeCallback(NewState(pos, errors), symbol,
                                                        "expected )", tokens)} :
             Applied(out)

\* The require family, applied in any order.
NextRequire ==
    \/ OpRequire
    \/ OpRequireWithReferenceToken
    \/ OpRequireWithReferenceRange
    \/ OpRequireWithReferenceRangeCallback

SpecRequire == InitOps /\ [][NextRequire]_vars

(***************************************************************************)
(* Punctuated<T>: a sequence of pairs, each a value with or without a      *)
(* punctuation token after it.  obs records the last operation applied.    *)
(***************************************************************************)
PunctValues == {1, 2}

PunctTokens == {",", ";"}

\* Pair::End(value)
PairEnd(value) == [kind |-> "End", value |-> value, punctuation |-> None]

\* Pair::Punctuated(value, punctuation)
PairPunctuated(value, punctuation) ==
    [kind |-> "Punctuated", value |-> value, punctuation |-> punctuation]

\* Pair::new
PairNew(value, punctuation) ==
    IF punctuation = None THEN PairEnd(value) ELSE PairPunctuated(value, punctuation)

\* Every pair a caller can make.
Pairs == {PairNew(v, p) : v \in PunctValues, p \in PunctTokens \cup {None}}

\* The sequences of at most n pairs a caller can hand to extend or from_iter.
PairSeqs(n) == UNION {[1..k -> Pairs] : k \in 0..n}

\* Punctuated::new
PunctuatedNew == <<>>

\* Punctuated::push
Push(ps, pair) == Append(ps, pair)

\* Punctuated::pop: [pairs, ret]
Pop(ps) ==
    IF ps = <<>> THEN [pairs |-> ps, ret |-> Nothing]
    ELSE [pairs |-> SubSeq(ps, 1, Len(ps) - 1), ret |-> ps[Len(ps)]]

\* A plausible slip in push_punctuated: the popped pair is not put back
\* before the panic.
PushPunctuatedLosesLast(ps, value, punctuation) ==
    LET popped == Pop(ps) IN
    IF popped.ret = Nothing
    THEN [pairs |-> popped.pairs, panic |-> "there are no elements"]
    ELSE IF popped.ret.punctuation # None
    THEN [pairs |-> popped.pairs,
          panic |-> "the last element already has punctuation"]
    ELSE [pairs |-> popped.pairs \o <<PairPunctuated(popped.ret.value, punctuation),
                                     PairNew(value, None)>>,
          panic |-> ""]

\* Punctuated::push_punctuated: [pairs, panic]
PushPunctuated(ps, value, punctuation) ==
    LET popped == Pop(ps) IN
    IF popped.ret = Nothing
    THEN [pairs |-> popped.pairs, panic |-> "there are no elements"]
    ELSE IF popped.ret.punctuation # None
    THEN [pairs |-> Append(popped.pairs, popped.ret),
          panic |-> "the last element already has punctuation"]
    ELSE [pairs |-> popped.pairs \o <<PairPunctuated(popped.ret.value, punctuation),
                                     PairNew(value, None)>>,
          panic |-> ""]

\* impl Extend<Pair<T>> for Punctuated<T>
Extend(ps, iter) == ps \o iter

\* impl FromIterator<Pair<T>> for Punctuated<T>
FromIter(iter) == iter

InitPunct ==
    /\ pairs = PunctuatedNew
    /\ pc = "punct" /\ obs = [op |-> "new", before |-> <<>>, panic |-> ""]
    /\ source = <<>> /\ slots = <<>> /\ pos = 1 /\ errors = <<>> /\ oplog = <<>>
    /\ block = Nothing /\ eof = Nothing /\ result = Nothing
    /\ lexer = Nothing /\ root = Nothing /\ items = <<>> /\ taken = Nothing
    /\ lua_version = {}

\* The variables the Punctuated operations leave alone.
PunctFrame == UNCHANGED <<source, slots, pc, pos, errors, block, eof, result, oplog>> /\ UNCHANGED walk

PunctNew ==
    /\ pc = "punct"
    /\ pairs' = PunctuatedNew
    /\ obs' = [op |-> "new", before |-> pairs, panic |-> ""]
    /\ PunctFrame

PunctPush ==
    /\ pc = "punct" /\ Len(pairs) < MaxPairs
    /\ \E pair \in Pairs : pairs' = Push(pairs, pair)
    /\ obs' = [op |-> "push", before |-> pairs, panic |-> ""]
    /\ PunctFrame

PunctPushPunctuated ==
    /\ pc = "punct" /\ Len(pairs) < MaxPairs
    /\ \E value \in PunctValues, punctuation \in PunctTokens :
          LET out == PushPunctuated(pairs, value, punctuation) IN
          /\ pairs' = out.pairs
          /\ obs' = [op |-> "push_punctuated", before |-> pairs, panic |-> out.panic,
                     value |-> value, punctuation |-> punctuation]
    /\ PunctFrame

PunctPop ==
    /\ pc = "punct"
    /\ pairs' = Pop(pairs).pairs
    /\ obs' = [op |-> "pop", before |-> pairs, panic |-> ""]
    /\ PunctFrame

PunctExtend ==
    /\ pc = "punct"
    /\ \E iter \in PairSeqs(MaxPairs - Len(pairs)) : pairs' = Extend(pairs, iter)
    /\ obs' = [op |-> "extend", before |-> pairs, panic |-> ""]
    /\ PunctFrame

PunctFromIter ==
    /\ pc = "punct"
    /\ \E iter \in PairSeqs(MaxPairs) : pairs' = FromIter(iter)
    /\ obs' = [op |-> "from_iter", before |-> pairs, panic |-> ""]
    /\ PunctFrame

NextPunct ==
    \/ PunctNew
    \/ PunctPush
    \/ PunctPushPunctuated
    \/ PunctPop
    \/ PunctExtend
    \/ PunctFromIter

SpecPunct == InitPunct /\ [][NextPunct]_vars


(***************************************************************************)
(* Nodes and the Tokens iterator (full-moon-common/src/node.rs).           *)
(* A node is a token reference, an absent Option, a Vec or tuple of nodes, *)
(* a Pair of a node and its separator, or a struct whose Node              *)
(* implementation is derived and lists one unexpanded item per field.      *)
(***************************************************************************)
\* Collections of the node universe hold at most MaxFields nodes.
MaxFields == 2
\* Calls made on one iterator.
MaxCalls == 6

\* TokenItem::TokenReference
TokenItemTokenReference(reference) == [kind |-> "TokenReference", reference |-> reference]
\* TokenItem::MoreTokens
TokenItemMoreTokens(node) == [kind |-> "MoreTokens", node |-> node]

\* A trivia token of the n-th token reference of a node.
Trivia(side, n) == [kind |-> "Whitespace", side |-> side, of |-> n]

\* The n-th token reference of a node as a node: a leaf.
Leaf(n) ==
    [kind |-> "TokenReference",
     reference |-> TokenReference(<<Trivia("leading", n)>>, n, <<Trivia("trailing", n)>>)]

\* Sequences of at most n elements of S.
SeqsUpTo(S, n) == UNION {[1..k -> S] : k \in 0..n}

\* Node shapes: the leaves carry no token yet.
Shapes0 == {[kind |-> "TokenReference"], [kind |-> "None"]}
ShapesOver(S) ==
    S \cup {[kind |-> "Vec", children |-> c] : c \in SeqsUpTo(S, MaxFields)}
      \cup {[kind |-> "Struct", children |-> c] : c \in SeqsUpTo(S, MaxFields)}
      \cup {[kind |-> "Punctuated", node |-> n] : n \in S}
      \cup {[kind |-> "End", node |-> n] : n \in S}
Shapes1 == ShapesOver(Shapes0)
Shapes == ShapesOver(Shapes1)

RECURSIVE Number(_, _)
RECURSIVE NumberAll(_, _, _)
\* The shapes of a collection numbered from left to right.
NumberAll(shapes, n, done) ==
    IF shapes = <<>> THEN [nodes |-> done, next |-> n]
    ELSE \* the first, then the rest from where the first stopped
         Bind(Number(Head(shapes), n), LAMBDA first :
              NumberAll(Tail(shapes), first.next, Append(done, first.node)))

\* A shape with its token references numbered in document order from n.
Number(shape, n) ==
    CASE shape.kind = "TokenReference" -> [node |-> Leaf(n), next |-> n + 1]
      [] shape.kind = "None" -> [node |-> shape, next |-> n]
      [] shape.kind \in {"Vec", "Struct"} ->
            Bind(NumberAll(shape.children, n, <<>>), LAMBDA all :
                 [node |-> [kind |-> shape.kind, children |-> all.nodes], next |-> all.next])
      [] shape.kind = "Punctuated" ->
            Bind(Number(shape.node, n), LAMBDA inner :
                 [node |-> [kind |-> "Punctuated", node |-> inner.node,
                            separator |-> Leaf(inner.next).reference],
                  next |-> inner.next + 1])
      [] shape.kind = "End" ->
            Bind(Number(shape.node, n), LAMBDA inner :
                 [node |-> [kind |-> "End", node |-> inner.node], next |-> inner.next])

\* The nodes of the universe.
Nodes == {Number(shape, 1).node : shape \in Shapes}

\* Node::tokens(...).items of a struct with a derived Node implementation:
\* one unexpanded item per field.
DerivedTokens(node) ==
    [k \in 1..Len(node.children) |-> TokenItemMoreTokens(node.children[k])]

RECURSIVE NodeTokens(_)
RECURSIVE NodeTokensAll(_)
\* `self.iter().flat_map(|node| node.tokens().items).collect()`
NodeTokensAll(nodes) ==
    IF nodes = <<>> THEN <<>>
    ELSE NodeTokens(Head(nodes)) \o NodeTokensAll(Tail(nodes))

\* Node::tokens(...).items for each implementation of Node.
NodeTokens(node) ==
    CASE node.kind = "TokenReference" -> <<TokenItemTokenReference(node.reference)>>
      [] node.kind = "None" -> <<>>
      [] node.kind = "Vec" -> NodeTokensAll(node.children)
      [] node.kind = "Punctuated" ->
            Append(NodeTokens(node.node), TokenItemTokenReference(node.separator))
      [] node.kind = "End" -> NodeTokens(node.node)
      [] node.kind = "Struct" -> DerivedTokens(node)

RECURSIVE TokensNext(_)
\* Iterator::next for Tokens.
TokensNext(its) ==
    IF its = <<>> THEN [items |-> <<>>, ret |-> Nothing]
    ELSE IF Head(its).kind = "TokenReference"
         THEN [items |-> Tail(its), ret |-> Some(Head(its).reference)]
         ELSE \* tokens.items.append(&mut self.items); self.items = tokens.items
              TokensNext(NodeTokens(Head(its).node) \o Tail(its))

\* All but the last element: what Vec::pop leaves.
Front(s) == SubSeq(s, 1, Len(s) - 1)

RECURSIVE TokensNextBackExpandsAtFront(_)
\* A plausible slip in next_back: the child's items are spliced in as next does.
TokensNextBackExpandsAtFront(its) ==
    IF its = <<>> THEN [items |-> <<>>, ret |-> Nothing]
    ELSE IF its[Len(its)].kind = "TokenReference"
         THEN [items |-> Front(its), ret |-> Some(its[Len(its)].reference)]
         ELSE TokensNextBackExpandsAtFront(NodeTokens(its[Len(its)].node) \o Front(its))

RECURSIVE TokensNextBack(_)
\* DoubleEndedIterator::next_back for Tokens.
TokensNextBack(its) ==
    IF its = <<>> THEN [items |-> <<>>, ret |-> Nothing]
    ELSE IF its[Len(its)].kind = "TokenReference"
         THEN [items |-> Front(its), ret |-> Some(its[Len(its)].reference)]
         ELSE \* self.items.append(&mut tokens.items)
              TokensNextBack(Front(its) \o NodeTokens(its[Len(its)].node))

\* Node::surrounding_trivia
surrounding_trivia(node) ==
    Bind(TokensNext(NodeTokens(node)), LAMBDA leading :
    Bind(TokensNextBack(leading.items), LAMBDA trailing :
         <<IF leading.ret.kind = "Some" THEN leading.ret.value.leading_trivia ELSE <<>>,
           IF trailing.ret.kind = "Some" THEN trailing.ret.value.trailing_trivia ELSE <<>>>>))

(***************************************************************************)
(* The iterator of one node, driven from both ends.                        *)
(***************************************************************************)
InitTokens ==
    /\ root \in Nodes
    /\ items = NodeTokens(root)
    /\ taken = <<>>
    /\ source = <<>> /\ slots = <<>> /\ pc = "tokens" /\ pos = 1 /\ errors = <<>>
    /\ block = Nothing /\ eof = Nothing /\ result = Nothing
    /\ oplog = <<>> /\ obs = Nothing /\ pairs = <<>> /\ lexer = Nothing /\ lua_version = {}

\* What a call on the iterator leaves alone.
TokensFrame ==
    UNCHANGED <<source, slots, pc, pos, errors, block, eof, result, oplog, pairs, lexer, root,
                lua_version>>

\* tokens.next()
CallNext ==
    /\ pc = "tokens" /\ Len(taken) < MaxCalls
    /\ \E out \in {TokensNext(items)} :
          /\ items' = out.items
          /\ taken' = Append(taken, [op |-> "next", ret |-> out.ret])
    /\ UNCHANGED obs
    /\ TokensFrame

\* tokens.next_back()
CallNextBack ==
    /\ pc = "tokens" /\ Len(taken) < MaxCalls
    /\ \E out \in {TokensNextBack(items)} :
          /\ items' = out.items
          /\ taken' = Append(taken, [op |-> "next_back", ret |-> out.ret])
    /\ UNCHANGED obs
    /\ TokensFrame

\* node.surrounding_trivia(), which makes an iterator of its own
CallSurroundingTrivia ==
    /\ pc = "tokens" /\ obs = Nothing
    /\ obs' = [op |-> "surrounding_trivia", ret |-> surrounding_trivia(root)]
    /\ UNCHANGED <<items, taken>>
    /\ TokensFrame

NextTokens ==
    \/ CallNext
    \/ CallNextBack
    \/ CallSurroundingTrivia

SpecTokens == InitTokens /\ [][NextTokens]_vars

(***************************************************************************)
(* The character-level Lexer with its two results of lookahead             *)
(* (full-moon/src/tokenizer/lexer.rs), driven by next().                   *)
(***************************************************************************)
\* Inputs of the lexer are at most MaxChars characters long.
MaxChars == 4

\* The characters of the inputs: one of each class the lexer tells apart.
LexChars == {"a", "1", "=", " ", "\t", "\n", "\r", "(", "?"}

\* The inputs of the lexer.
LexSources == UNION {[1..k -> LexChars] : k \in 0..MaxChars}

\* Lexer::new: the first two results are read ahead.
RawLexerNew(src) ==
    Bind(ProcessNext(src, StartPosition, FALSE), LAMBDA first :
    Bind(ProcessNext(src, first.position, first.sent_eof), LAMBDA second :
         [position |-> second.position, sent_eof |-> second.sent_eof,
          next_token |-> first.result, peek_token |-> second.result]))

\* Lexer::current: `self.next_token.as_ref()`
RawLexerCurrent(lx) == lx.next_token

\* Lexer::peek: `self.peek_token.as_ref()`
RawLexerPeek(lx) == lx.peek_token

\* A plausible slip in Lexer::next: the slots are not shifted.
RawLexerNextRepeats(src, lx) ==
    IF lx.next_token = Nothing THEN [lexer |-> lx, ret |-> Nothing]
    ELSE Bind(ProcessNext(src, lx.position, lx.sent_eof), LAMBDA p :
              [lexer |-> [position |-> p.position, sent_eof |-> p.sent_eof,
                          next_token |-> lx.next_token, peek_token |-> p.result],
               ret |-> lx.next_token])

\* A plausible slip in Lexer::next: the result read ahead is overwritten.
RawLexerNextDropsPeek(src, lx) ==
    IF lx.next_token = Nothing THEN [lexer |-> lx, ret |-> Nothing]
    ELSE Bind(ProcessNext(src, lx.position, lx.sent_eof), LAMBDA p :
              [lexer |-> [position |-> p.position, sent_eof |-> p.sent_eof,
                          next_token |-> p.result, peek_token |-> Nothing],
               ret |-> lx.next_token])

\* Lexer::next: [lexer, ret].
RawLexerNext(src, lx) ==
    IF lx.next_token = Nothing THEN [lexer |-> lx, ret |-> Nothing]
    ELSE Bind(ProcessNext(src, lx.position, lx.sent_eof), LAMBDA p :
              [lexer |-> [position |-> p.position, sent_eof |-> p.sent_eof,
                          next_token |-> lx.peek_token, peek_token |-> p.result],
               ret |-> lx.next_token])

InitLexer ==
    /\ source \in LexSources
    /\ lexer = RawLexerNew(source)
    /\ taken = <<>>
    /\ slots = <<>> /\ pc = "lexer" /\ pos = 1 /\ errors = <<>>
    /\ block = Nothing /\ eof = Nothing /\ result = Nothing
    /\ oplog = <<>> /\ obs = Nothing /\ pairs = <<>> /\ root = Nothing /\ items = <<>>
    /\ lua_version = {}

\* lexer.next(), called up to three times more than the input has characters
CallLexerNext ==
    /\ pc = "lexer" /\ Len(taken) < Len(source) + 3
    /\ \E out \in {RawLexerNext(source, lexer)} :
          /\ lexer' = out.lexer
          /\ taken' = Append(taken, out.ret)
    /\ UNCHANGED <<source, slots, pc, pos, errors, block, eof, result, oplog, obs, pairs,
                   root, items, lua_version>>

NextLexer == CallLexerNext

SpecLexer == InitLexer /\ [][NextLexer]_vars

(***************************************************************************)
(* TokenReference::symbol_specific_lua_version                             *)
(* (full-moon-common/src/tokenizer.rs): one symbol with its whitespace,    *)
(* read from a lexer made with new_lazy, one process_next at a time.       *)
(***************************************************************************)
\* TokenizerErrorType::InvalidNumber at a number the lexer could not read.
InvalidNumberAt(token) == [error |-> <<"InvalidNumber">>, position |-> token.start_position]

\* Lexer::process_next of the lazy lexer, as the sequence of results it will
\* yield for text: tokens without trivia; result m, when it is a number, is
\* one the lexer could not read (m = 0: none).
LazyResults(text, m) ==
    Bind(RawTokens(text), LAMBDA raw :
        [k \in 1..Len(raw) |->
            IF raw[k].kind = "Err" THEN LexFatal(<<raw[k].error>>)
            ELSE IF k = m /\ raw[k].token.kind = "Number"
                 THEN LexFatal(<<InvalidNumberAt(raw[k].token)>>)
                 ELSE LexOk(raw[k].token)])

\* Err(TokenizerErrorType)
SymbolErr(error) == [kind |-> "Err", error |-> error]

\* `TokenizerErrorType::UnexpectedToken(token.to_string().chars().next().unwrap())`
UnexpectedFirstChar(token) == SymbolErr(<<"UnexpectedToken", TokenDisplay(token)[1]>>)

InitSymbol ==
    /\ source \in LexSources
    /\ slots \in {LazyResults(source, m) : m \in 0..MaxChars}
    /\ pc = "leading" /\ pos = 1
    /\ taken = [leading_trivia |-> <<>>, symbol |-> Nothing, trailing_trivia |-> <<>>]
    /\ result = Nothing
    /\ errors = <<>> /\ block = Nothing /\ eof = Nothing
    /\ oplog = <<>> /\ obs = Nothing /\ pairs = <<>>
    /\ lexer = Nothing /\ root = Nothing /\ items = <<>> /\ lua_version = {}

\* What a step of symbol_specific_lua_version leaves alone.
SymbolFrame ==
    UNCHANGED <<source, slots, errors, block, eof, oplog, obs, pairs, lexer, root, items,
                lua_version>>

\* One turn of the first loop: whitespace before the symbol, then the symbol.
SymbolLeading ==
    /\ pc = "leading" /\ pos \in 1..Len(slots)
    /\ \E r \in {slots[pos]} :
          /\ pos' = pos + 1
          /\ IF r.kind = "Ok" /\ r.token.kind = "Whitespace"
             THEN /\ taken' = [taken EXCEPT !.leading_trivia = Append(@, r.token)]
                  /\ UNCHANGED <<pc, result>>
             ELSE IF r.kind = "Ok" /\ r.token.kind = "Symbol"
             THEN /\ taken' = [taken EXCEPT !.symbol = r.token]
                  /\ pc' = "trailing"
                  /\ UNCHANGED result
             ELSE /\ pc' = "done"
                  /\ UNCHANGED taken
                  /\ result' = IF r.kind = "Ok" /\ r.token.kind = "Eof"
                               THEN SymbolErr(<<"InvalidSymbol", source>>)
                               ELSE IF r.kind = "Ok"
                               THEN UnexpectedFirstChar(r.token)
                               ELSE SymbolErr(r.errors[1].error)
    /\ SymbolFrame

\* One turn of the second loop: whitespace after the symbol, then Eof.
SymbolTrailing ==
    /\ pc = "trailing" /\ pos \in 1..Len(slots)
    /\ \E r \in {slots[pos]} :
          /\ pos' = pos + 1
          /\ IF r.kind = "Ok" /\ r.token.kind = "Whitespace"
             THEN /\ taken' = [taken EXCEPT !.trailing_trivia = Append(@, r.token)]
                  /\ UNCHANGED <<pc, result>>
             ELSE /\ pc' = "done"
                  /\ UNCHANGED taken
                  /\ result' = IF r.kind = "Ok" /\ r.token.kind = "Eof"
                               THEN [kind |-> "Ok",
                                     value |-> TokenReference(taken.leading_trivia,
                                                   taken.symbol, taken.trailing_trivia)]
                               ELSE IF r.kind = "Ok"
                               THEN UnexpectedFirstChar(r.token)
                               ELSE SymbolErr(r.errors[1].error)
    /\ SymbolFrame

NextSymbol ==
    \/ SymbolLeading
    \/ SymbolTrailing

SpecSymbol == InitSymbol /\ [][NextSymbol]_vars

(***************************************************************************)
(* Binary operators (full-moon-super/src/ast.rs,                           *)
(* full-moon-common/src/ast/make_bin_op.rs) and the expression parser      *)
(* that climbs their precedences.                                          *)
(***************************************************************************)
\* Expressions of the model have at most MaxBinOps binary operators.
MaxBinOps == 2

\* LuaVersion: the set of the version bits it has.
LuaVersionLua51 == {}
LuaVersionLuau == {"luau"}
LuaVersionLua52 == {"lua52"}
LuaVersionLua53 == {"lua52", "lua53"}
LuaVersionDefault == {"luau", "lua52", "lua53"}
LuaVersions ==
    {LuaVersionLua51, LuaVersionLuau, LuaVersionLua52, LuaVersionLua53, LuaVersionDefault}

\* The table handed to make_bin_op!: `[versions] operator = precedence`.
BinOpTable ==
    { [operator |-> "Caret", precedence |-> 12, versions |-> {}],
      [operator |-> "Percent", precedence |-> 10, versions |-> {}],
      [operator |-> "Slash", precedence |-> 10, versions |-> {}],
      [operator |-> "Star", precedence |-> 10, versions |-> {}],
      [operator |-> "DoubleSlash", precedence |-> 10, versions |-> {"luau", "lua53"}],
      [operator |-> "Minus", precedence |-> 9, versions |-> {}],
      [operator |-> "Plus", precedence |-> 9, versions |-> {}],
      [operator |-> "TwoDots", precedence |-> 8, versions |-> {}],
      [operator |-> "DoubleLessThan", precedence |-> 7, versions |-> {"lua53"}],
      [operator |-> "DoubleGreaterThan", precedence |-> 7, versions |-> {"lua53"}],
      [operator |-> "Ampersand", precedence |-> 6, versions |-> {"lua53"}],
      [operator |-> "Tilde", precedence |-> 5, versions |-> {"lua53"}],
      [operator |-> "Pipe", precedence |-> 4, versions |-> {"lua53"}],
      [operator |-> "GreaterThan", precedence |-> 3, versions |-> {}],
      [operator |-> "GreaterThanEqual", precedence |-> 3, versions |-> {}],
      [operator |-> "LessThan", precedence |-> 3, versions |-> {}],
      [operator |-> "LessThanEqual", precedence |-> 3, versions |-> {}],
      [operator |-> "TildeEqual", precedence |-> 3, versions |-> {}],
      [operator |-> "TwoEqual", precedence |-> 3, versions |-> {}],
      [operator |-> "And", precedence |-> 2, versions |-> {}],
      [operator |-> "Or", precedence |-> 1, versions |-> {}] }

\* The row of the table for an operator.
BinOpRow(operator) == CHOOSE row \in BinOpTable : row.operator = operator

\* has_version!(lua_version, versions): true for no versions, otherwise
\* whether lua_version has one of them.
has_version(version, versions) ==
    IF versions = {} THEN TRUE ELSE \E v \in versions : v \in version

\* `todo!()`
Todo == [kind |-> "Panic", value |-> "not yet implemented"]

\* BinOp::precedence_of_token: Some(precedence), None, or the panic of the
\* arm `_ => todo!()`, which is the first arm for a symbol and matches all.
precedence_of_token(token) ==
    IF token.token.kind = "Symbol" THEN Todo ELSE NoToken

\* BinOpTrait::is_right_associative_token
is_right_associative_token(token) ==
    token.token.kind = "Symbol" /\ token.token.symbol \in {"Caret", "TwoDots"}

\* The body of BinOp::consume: `state.current().unwrap()`, then the match.
BinOpConsumeBody(st) ==
    Bind(StateCurrent(st), LAMBDA cur :
        IF cur.st.panic # "" THEN cur
        ELSE IF cur.ret.kind # "Some"
        THEN [st |-> Panic(cur.st, "called Result::unwrap() on an Err value"), ret |-> NoToken]
        ELSE IF cur.ret.value.token.kind = "Symbol"
        THEN [st |-> Panic(cur.st, Todo.value), ret |-> NoToken]
        ELSE [st |-> cur.st, ret |-> NoToken])

\* BinOp::consume
BinOpConsume(st) ==
    Bind(BinOpConsumeBody(st), LAMBDA out : Logged("BinOp::consume", None, None, st, out))

\* Expression::Number
ExpressionNumber(token) == [kind |-> "Number", token |-> token]

\* Expression::BinaryOperator { lhs, binop, rhs }
ExpressionBinaryOperator(lhs, binop, rhs) ==
    [kind |-> "BinaryOperator", lhs |-> lhs, binop |-> binop, rhs |-> rhs]

\* The primary operand of an expression: a number.
ParsePrimary(st) ==
    Bind(StateCurrent(st), LAMBDA cur :
        IF cur.ret.kind = "Some" /\ cur.ret.value.token.kind = "Number"
        THEN Bind(ConsumeUnwrap(cur.st), LAMBDA number :
                 [st |-> number.st, ret |-> Value(ExpressionNumber(number.ret.value))])
        ELSE [st |-> cur.st, ret |-> NotFound])

RECURSIVE ParseClimb(_, _)
RECURSIVE ClimbFrom(_, _, _)
RECURSIVE ClimbWith(_, _, _, _, _)

\* The right operand of the operator binop of precedence precedence, parsed
\* with the threshold of its associativity, and the climb continued.
ClimbWith(op, lhs, min_precedence, token, precedence) ==
    Bind(ParseClimb(op.st, IF is_right_associative_token(token)
                            THEN precedence ELSE precedence + 1), LAMBDA rhs :
        IF rhs.st.panic # "" THEN rhs
        ELSE IF rhs.ret.kind # "Value"
        THEN [st |-> ErrorAtCurrent(rhs.st, ExpectedOperand), ret |-> Value(lhs)]
        ELSE ClimbFrom(rhs.st,
                       ExpressionBinaryOperator(lhs, op.ret.value, rhs.ret.value),
                       min_precedence))

\* The loop of the climb: while the current token is a binary operator of at
\* least min_precedence, consume it and parse its right operand.
ClimbFrom(st, lhs, min_precedence) ==
    Bind(StateCurrent(st), LAMBDA cur :
        IF cur.ret.kind # "Some" THEN [st |-> cur.st, ret |-> Value(lhs)]
        ELSE Bind(precedence_of_token(cur.ret.value), LAMBDA precedence :
            IF precedence.kind = "Panic"
            THEN [st |-> Panic(cur.st, precedence.value), ret |-> NotFound]
            ELSE IF precedence.kind # "Some" \/ precedence.value < min_precedence
            THEN [st |-> cur.st, ret |-> Value(lhs)]
            ELSE Bind(BinOpConsume(cur.st), LAMBDA op :
                IF op.st.panic # "" THEN [st |-> op.st, ret |-> NotFound]
                ELSE IF op.ret.kind # "Some" THEN [st |-> op.st, ret |-> Value(lhs)]
                ELSE ClimbWith(op, lhs, min_precedence, cur.ret.value, precedence.value))))

\* parse_expression with a threshold: one operand, then the climb.
ParseClimb(st, min_precedence) ==
    Bind(ParsePrimary(st), LAMBDA primary :
        IF primary.st.panic # "" \/ primary.ret.kind # "Value" THEN primary
        ELSE ClimbFrom(primary.st, primary.ret.value, min_precedence))

\* The operators of the expressions of the model.
ExprOperators == {"Plus", "Minus", "Star", "Caret", "TwoDots", "DoubleSlash"}

\* The texts of the operands, in order.
ExprNumbers == <<"1", "2", "3", "4", "5", "6", "7", "8", "9">>

\* The lexer results of `1 op 2 op 3 ...`: result 2k - 1 is the k-th number,
\* result 2k the k-th operator, the last is Eof.
ExprStream(ops) ==
    [i \in 1..(2 * Len(ops) + 2) |->
        LexOk(TokenReference(<<>>,
            IF i = 2 * Len(ops) + 2
            THEN Token("Eof", <<>>, None, OpPosition(i), OpPosition(i))
            ELSE IF i % 2 = 1
            THEN Token("Number", <<ExprNumbers[(i + 1) \div 2]>>, None,
                       OpPosition(i), OpPosition(i + 1))
            ELSE Token("Symbol", <<>>, ops[i \div 2], OpPosition(i), OpPosition(i + 1)),
            <<>>))]

\* The operators of the stream held in slots.
ExprOps == [k \in 1..((Len(slots) - 2) \div 2) |-> slots[2 * k].token.token.symbol]

InitBinOp ==
    /\ slots \in {ExprStream(ops) : ops \in SeqsUpTo(ExprOperators, MaxBinOps)}
    /\ lua_version \in LuaVersions
    /\ pc = "expr" /\ pos = 1 /\ errors = <<>> /\ oplog = <<>>
    /\ source = <<>> /\ block = Nothing /\ eof = Nothing
    /\ result = Nothing /\ obs = Nothing /\ pairs = <<>>
    /\ lexer = Nothing /\ root = Nothing /\ items = <<>> /\ taken = Nothing

\* What the operations on an expression leave alone.
BinOpFrame == UNCHANGED <<source, slots, block, eof, pairs>> /\ UNCHANGED walk

\* state.consume(), up to the Eof token
ExprConsume ==
    /\ pc = "expr" /\ pos < Len(slots)
    /\ \E out \in {Consume(NewState(pos, errors))} : Commit(out.st, "expr")
    /\ UNCHANGED <<result, obs>>
    /\ BinOpFrame

\* BinOp::consume(state)
ExprBinOpConsume ==
    /\ pc = "expr"
    /\ \E out \in {BinOpConsume(NewState(pos, errors))} :
          /\ Commit(out.st, "expr")
          /\ obs' = [op |-> "BinOp::consume", ret |-> out.ret]
    /\ UNCHANGED result
    /\ BinOpFrame

\* parse_expression(state) at the start of the stream
ExprParse ==
    /\ pc = "expr" /\ pos = 1
    /\ \E out \in {ParseClimb(NewState(pos, errors), 1)} :
          /\ Commit(out.st, "parsed")
          /\ result' = out.ret
          /\ obs' = [op |-> "parse_expression", ret |-> out.ret]
    /\ BinOpFrame

NextBinOp ==
    \/ ExprConsume
    \/ ExprBinOpConsume
    \/ ExprParse

SpecBinOp == InitBinOp /\ [][NextBinOp]_vars

(***************************************************************************)
(* The identifier arm of Lexer::process_next on inputs made of letters     *)
(* that spell keywords and their extensions.                               *)
(***************************************************************************)
IdentifierChars == {"i", "n", "d", "o", "_", "1", " "}

IdentifierSources == UNION {[1..k -> IdentifierChars] : k \in 0..MaxChars}

InitIdentifier ==
    /\ source \in IdentifierSources
    /\ lexer = RawLexerNew(source)
    /\ taken = <<>>
    /\ slots = <<>> /\ pc = "lexer" /\ pos = 1 /\ errors = <<>>
    /\ block = Nothing /\ eof = Nothing /\ result = Nothing
    /\ oplog = <<>> /\ obs = Nothing /\ pairs = <<>> /\ root = Nothing /\ items = <<>>
    /\ lua_version = {}

SpecIdentifier == InitIdentifier /\ [][NextLexer]_vars

(***************************************************************************)
(* The two source cursors: LexerSource of full-moon/src/tokenizer/lexer.rs *)
(* (SourceCurrent, SourceNext, SourcePeek, SourceConsume above) and        *)
(* LexerSource of full-moon-common/src/lexer.rs, driven side by side over  *)
(* the same input by next() and consume(c).                                *)
(***************************************************************************)
\* The character U+00E9, which UTF-8 encodes in two bytes, stands for the
\* characters outside ASCII.
WideChars == {"U+00E9"}

\* char::len_utf8
len_utf8(character) == IF character \in WideChars THEN 2 ELSE 1

\* LexerPosition::new
LexerPositionNew == [position |-> StartPosition, index |-> 0]

\* full-moon-common LexerSource::current: source.get(lexer_position.index)
CommonCurrent(src, lp) == IF lp.index + 1 <= Len(src) THEN src[lp.index + 1] ELSE None

\* full-moon-common LexerSource::next: [ret, lp]
CommonNext(src, lp) ==
    LET next == CommonCurrent(src, lp) IN
    IF next = None THEN [ret |-> None, lp |-> lp]
    ELSE [ret |-> next,
          lp |-> [position |->
                     [bytes |-> lp.position.bytes + len_utf8(next),
                      line |-> IF next = "\n" THEN lp.position.line + 1
                               ELSE lp.position.line,
                      character |-> IF next = "\n" THEN 1
                                    ELSE lp.position.character + 1],
                  index |-> lp.index + 1]]

\* full-moon-common LexerSource::consume: [ret, lp]; it tests current().
CommonConsume(src, lp, character) ==
    IF CommonCurrent(src, lp) = character
    THEN [ret |-> TRUE, lp |-> CommonNext(src, lp).lp]
    ELSE [ret |-> FALSE, lp |-> lp]

CursorChars == {"a", "=", "\n"} \cup WideChars

CursorSources == UNION {[1..k -> CursorChars] : k \in 0..MaxChars}

\* lexer: the two cursors; taken: the number of times next() has returned a
\* character, for each; pos: the number of the call; obs: the last call.
InitCursor ==
    /\ source \in CursorSources
    /\ lexer = [local |-> StartPosition, common |-> LexerPositionNew]
    /\ taken = [local |-> 0, common |-> 0]
    /\ pos = 1 /\ obs = Nothing /\ pc = "cursor"
    /\ slots = <<>> /\ errors = <<>> /\ block = Nothing /\ eof = Nothing
    /\ result = Nothing /\ oplog = <<>> /\ pairs = <<>> /\ root = Nothing
    /\ items = <<>> /\ lua_version = {}

CursorFrame ==
    UNCHANGED <<source, slots, pc, errors, block, eof, result, oplog, pairs, root, items,
                lua_version>>

\* The number of characters next() returns at a position of the local cursor.
Returned(position) == IF SourceCurrent(source, position) # None THEN 1 ELSE 0

\* next() on both cursors
CursorNext ==
    /\ pc = "cursor" /\ pos <= Len(source) + 1
    /\ \E c \in {CommonNext(source, lexer.common)},
          l \in {SourceNext(source, lexer.local)} :
          /\ lexer' = [local |-> l, common |-> c.lp]
          /\ taken' = [local |-> taken.local + Returned(lexer.local),
                       common |-> taken.common + (IF c.ret # None THEN 1 ELSE 0)]
          /\ obs' = [op |-> "next", character |-> None, before |-> lexer,
                     ret |-> [local |-> SourceCurrent(source, lexer.local), common |-> c.ret]]
    /\ pos' = pos + 1
    /\ CursorFrame

\* consume(character) on both cursors
CursorConsume ==
    /\ pc = "cursor" /\ pos <= Len(source) + 1
    /\ \E character \in CursorChars :
       \E c \in {CommonConsume(source, lexer.common, character)},
          l \in {SourceConsume(source, lexer.local, character)} :
          /\ lexer' = [local |-> l.position, common |-> c.lp]
          /\ taken' = [local |-> taken.local + (IF l.ok THEN Returned(lexer.local) ELSE 0),
                       common |-> taken.common +
                                  (IF c.ret /\ CommonCurrent(source, lexer.common) # None
                                   THEN 1 ELSE 0)]
          /\ obs' = [op |-> "consume", character |-> character, before |-> lexer,
                     ret |-> [local |-> l.ok, common |-> c.ret]]
    /\ pos' = pos + 1
    /\ CursorFrame

NextCursor == CursorNext \/ CursorConsume

SpecCursor == InitCursor /\ [][NextCursor]_vars

(***************************************************************************)
(* LexerResult (full-moon-common/src/lexer.rs): results built with new or  *)
(* as Fatal, and read with errors().                                       *)
(***************************************************************************)
\* LexerResult::new
LexerResultNew(value, tokenizer_errors) ==
    IF tokenizer_errors = <<>> THEN LexOk(value) ELSE LexRecovered(value, tokenizer_errors)

\* LexerResult::errors: `Self::Recovered(_, errors) => errors, _ => Vec::new()`
LexerResultErrors(r) == IF r.kind = "Recovered" THEN r.errors ELSE <<>>

\* The tokenizer errors a lexer reports, and the lists of at most two of them.
ResultErrors ==
    {[error |-> e, position |-> [StartPosition EXCEPT !.bytes = b, !.character = b + 1]] :
        e \in {<<"InvalidNumber">>, <<"UnexpectedToken", "?">>}, b \in 0..1}

ResultErrorLists == UNION {[1..k -> ResultErrors] : k \in 0..MaxErrorList}

ResultValues == {"a", "b", "c"}

\* result: the LexerResult at hand; errors: what errors() returned for it.
InitResult ==
    /\ result = Nothing /\ errors = <<>> /\ obs = Nothing /\ pc = "result"
    /\ source = <<>> /\ slots = <<>> /\ pos = 1 /\ block = Nothing /\ eof = Nothing
    /\ oplog = <<>> /\ pairs = <<>> /\ lexer = Nothing /\ root = Nothing
    /\ items = <<>> /\ taken = Nothing /\ lua_version = {}

ResultFrame ==
    UNCHANGED <<source, slots, pc, pos, block, eof, oplog, pairs>> /\ UNCHANGED walk

\* LexerResult::new(value, errors)
CallResultNew ==
    /\ pc = "result"
    /\ \E value \in ResultValues, tokenizer_errors \in ResultErrorLists :
          /\ result' = LexerResultNew(value, tokenizer_errors)
          /\ obs' = [op |-> "new", value |-> value, errors |-> tokenizer_errors]
    /\ UNCHANGED errors
    /\ ResultFrame

\* LexerResult::Fatal(errors), as a lexer builds it
CallResultFatal ==
    /\ pc = "result"
    /\ \E tokenizer_errors \in ResultErrorLists \ {<<>>} :
          /\ result' = LexFatal(tokenizer_errors)
          /\ obs' = [op |-> "fatal", errors |-> tokenizer_errors]
    /\ UNCHANGED errors
    /\ ResultFrame

\* result.errors(), which consumes the result
CallResultErrors ==
    /\ pc = "result" /\ result # Nothing
    /\ errors' = LexerResultErrors(result)
    /\ obs' = [op |-> "errors", of |-> result]
    /\ result' = Nothing
    /\ ResultFrame

NextResult == CallResultNew \/ CallResultFatal \/ CallResultErrors

SpecResult == InitResult /\ [][NextResult]_vars

(***************************************************************************)
(* LuaVersion (full-moon/src/ast/versions.rs), in the build with the       *)
(* features roblox, lua52 and lua53, in which every constructor and every  *)
(* with_ method exists and has_x is the test of the bit of x.              *)
(***************************************************************************)
\* LuaVersion::new
LuaVersionNew == LuaVersionDefault

\* A plausible slip in with_lua53: the bit of Lua 5.2 is not set with it.
with_lua53_alone(version) == version \cup {"lua53"}

\* LuaVersion::with_luau: `self.bitfield | VERSION_LUAU`
with_luau(version) == version \cup {"luau"}

\* LuaVersion::with_lua52: `self.bitfield | VERSION_LUA52`
with_lua52(version) == version \cup {"lua52"}

\* LuaVersion::with_lua53: `self.bitfield | VERSION_LUA52 | VERSION_LUA53`
with_lua53(version) == version \cup {"lua52", "lua53"}

\* LuaVersion::has_luau
has_luau(version) == "luau" \in version

\* LuaVersion::has_lua52
has_lua52(version) == "lua52" \in version

\* LuaVersion::has_lua53
has_lua53(version) == "lua53" \in version

\* The constructors, by name.
VersionConstructors ==
    [new |-> LuaVersionNew, default |-> LuaVersionDefault, lua51 |-> LuaVersionLua51,
     luau |-> LuaVersionLuau, lua52 |-> LuaVersionLua52, lua53 |-> LuaVersionLua53]

\* taken: the constructor the version was made with and the with_ calls made
\* on it since; obs: the version before the last call.
InitVersion ==
    /\ \E constructor \in DOMAIN VersionConstructors :
          /\ lua_version = VersionConstructors[constructor]
          /\ taken = [constructor |-> constructor, calls |-> <<>>]
    /\ obs = Nothing /\ pc = "version"
    /\ source = <<>> /\ slots = <<>> /\ pos = 1 /\ errors = <<>> /\ oplog = <<>>
    /\ block = Nothing /\ eof = Nothing /\ result = Nothing /\ pairs = <<>>
    /\ lexer = Nothing /\ root = Nothing /\ items = <<>>

VersionFrame ==
    UNCHANGED <<source, slots, pc, pos, errors, block, eof, result, oplog, pairs,
                lexer, root, items>>

\* One more with_ call, made on the version at hand.
Called(name, version) ==
    /\ Len(taken.calls) < MaxWithCalls
    /\ lua_version' = version
    /\ taken' = [taken EXCEPT !.calls = Append(@, name)]
    /\ obs' = [op |-> name, before |-> lua_version]
    /\ VersionFrame

CallWithLuau == pc = "version" /\ Called("with_luau", with_luau(lua_version))

CallWithLua52 == pc = "version" /\ Called("with_lua52", with_lua52(lua_version))

CallWithLua53 == pc = "version" /\ Called("with_lua53", with_lua53(lua_version))

NextVersion == CallWithLuau \/ CallWithLua52 \/ CallWithLua53

SpecVersion == InitVersion /\ [][NextVersion]_vars

(***************************************************************************)
(* Properties.                                                             *)
(***************************************************************************)

\* C1: whenever a source is parsed with no diagnostic recorded, printing the
\* tree that parse returns gives back the source, character for character.
RoundTrip ==
    (pc = "done" /\ errors = <<>>) => print(result.ast) = source

\* The fragment that the block parser returned in the step obs records.
Fragment == obs.ret.value

\* Whether the last step was a loop iteration that called the block parser.
ParsedInLoop == obs # Nothing /\ obs.step = "parse"

\* C2: every iteration of the recovery loop, whatever the block parser
\* returned in it, appends a statement to the accumulated block, moves the
\* lexer forward, or leaves the loop at Eof.
LoopProgress ==
    (obs # Nothing /\ obs.step \in {"parse", "fatal"}) =>
        \/ Len(block.stmts) > Len(obs.block0.stmts)
        \/ pos > obs.pos0
        \/ pc = "eof"

StrictResult ==
    pc = "done" =>
        /\ result.kind \in {"Ok", "Err"}
        /\ (result.kind = "Ok") <=> (errors = <<>>)
        /\ result.kind = "Ok" => result.ast = Ast
        /\ result.kind = "Err" => (result.errors = errors /\ result.ast = Nothing)

\* parse failed with a single diagnostic.
StrictResultWitness ==
    pc = "done" /\ result.kind = "Err" /\ Len(result.errors) = 1

\* C5: in a Punctuated sequence every pair but the last is Punctuated.
PunctuatedInvariant ==
    \A i \in 1..(Len(pairs) - 1) : pairs[i].kind = "Punctuated"

\* C6: a fragment returned in the loop with a statement or a last statement
\* is merged: its statements follow the accumulated ones, and the last
\* statement kept is the accumulated one if there was one, else its own.
FragmentsMerged ==
    (/\ ParsedInLoop
     /\ obs.ret.kind = "Value"
     /\ (Fragment.stmts # <<>> \/ Fragment.last_stmt # Nothing)) =>
        /\ block.stmts = obs.block0.stmts \o Fragment.stmts
        /\ block.last_stmt = IF obs.block0.last_stmt # Nothing
                             THEN obs.block0.last_stmt
                             ELSE Fragment.last_stmt

\* Whether a diagnostic is the driver's generic one.
IsGeneric(error) == error.type = "AstError" /\ error.additional = UNEXPECTED_TOKEN_ERROR

\* Whether the last step got an empty fragment with the cursor before Eof.
EmptyFragmentBeforeEof ==
    /\ ParsedInLoop
    /\ obs.ret.kind = "Value"
    /\ Fragment.stmts = <<>> /\ Fragment.last_stmt = Nothing
    /\ slots[obs.pos0].token.token.kind # "Eof"

\* C7: after an empty fragment before Eof the driver has consumed exactly one
\* token, recorded that token's tokenizer errors if it had any, and then the
\* generic diagnostic at that token unless the diagnostic just before it is
\* the generic one, in which case nothing was recorded; and no two adjacent
\* diagnostics are both the generic one.
UnexpectedTokenRule ==
    /\ EmptyFragmentBeforeEof =>
          LET slot == slots[obs.pos0]
              before == PushTokenizerErrors(obs.errors0, slot.errors)
          IN /\ pos = obs.pos0 + 1
             /\ errors = IF before # <<>> /\ IsGeneric(before[Len(before)])
                         THEN before
                         ELSE Append(before, AstError(slot.token.token,
                                                      UNEXPECTED_TOKEN_ERROR, Nothing))
    /\ \A i \in 1..(Len(errors) - 1) : ~(IsGeneric(errors[i]) /\ IsGeneric(errors[i + 1]))

\* A second unexpected token in a row was consumed and nothing was recorded.
UnexpectedTokenRuleWitness ==
    /\ EmptyFragmentBeforeEof
    /\ obs.errors0 # <<>> /\ IsGeneric(obs.errors0[Len(obs.errors0)])
    /\ errors = obs.errors0
    /\ pos = obs.pos0 + 1

\* The entries of the operation log for the operation op.
Entries(op) == {k \in 1..Len(oplog) : oplog[k].op = op}

\* C8: consume returns the token of an Ok result and records nothing; it
\* returns the token of a Recovered result after recording all its tokenizer
\* errors; it returns LexerMoved for a Fatal result after recording all its
\* tokenizer errors; each of the three moves the lexer by one result; on an
\* exhausted stream it returns NotFound and changes nothing.
ConsumeContract ==
    \A k \in Entries("consume") :
        LET e == oplog[k]
            slot == LexerCurrent(e.pre_pos)
        IN IF slot = Nothing
           THEN e.ret = NotFound /\ e.post_pos = e.pre_pos /\ e.post_errors = e.pre_errors
           ELSE /\ e.post_pos = e.pre_pos + 1
                /\ e.ret = IF slot.kind = "Fatal" THEN LexerMoved ELSE Value(slot.token)
                /\ e.post_errors =
                      IF slot.kind = "Ok" THEN e.pre_errors
                      ELSE e.pre_errors \o [i \in 1..Len(slot.errors) |->
                                               TokenizerError(slot.errors[i])]

\* consume returned the token of a Recovered result that had two errors.
ConsumeContractWitness ==
    \E k \in Entries("consume") :
        /\ LexerCurrent(oplog[k].pre_pos) # Nothing
        /\ LexerCurrent(oplog[k].pre_pos).kind = "Recovered"
        /\ Len(LexerCurrent(oplog[k].pre_pos).errors) = 2
        /\ oplog[k].ret.kind = "Value"
        /\ Len(oplog[k].post_errors) = Len(oplog[k].pre_errors) + 2

\* C9: consume_if at a readable token that is the symbol consumes that token
\* and returns it; at any other token, and at a Fatal result, it returns
\* nothing and leaves the cursor and the diagnostics as they were.
ConsumeIfFrame ==
    \A k \in Entries("consume_if") :
        LET e == oplog[k]
            slot == LexerCurrent(e.pre_pos)
        IN slot # Nothing =>
           IF slot.kind # "Fatal" /\ is_symbol(slot.token, e.symbol)
           THEN /\ e.ret = Some(slot.token)
                /\ e.post_pos = e.pre_pos + 1
           ELSE /\ e.ret = NoToken
                /\ e.post_pos = e.pre_pos
                /\ e.post_errors = e.pre_errors

\* consume_if left a non-empty diagnostics list and the cursor alone at a
\* token that is not the symbol.
ConsumeIfFrameWitness ==
    \E k \in Entries("consume_if") :
        /\ LexerCurrent(oplog[k].pre_pos) # Nothing
        /\ LexerCurrent(oplog[k].pre_pos).kind \in {"Ok", "Recovered"}
        /\ ~is_symbol(LexerCurrent(oplog[k].pre_pos).token, oplog[k].symbol)
        /\ oplog[k].pre_errors # <<>>
        /\ oplog[k].ret = NoToken

\* C10: require at a readable token that is not the symbol records one
\* AstError, at that token, with the given message and no range, returns
\* nothing and leaves the cursor where it was; at a token that is the symbol
\* it consumes and returns it and records no AstError.
RequireContract ==
    \A k \in Entries("require") :
        LET e == oplog[k]
            slot == LexerCurrent(e.pre_pos)
        IN (slot # Nothing /\ slot.kind # "Fatal") =>
           IF is_symbol(slot.token, e.symbol)
           THEN /\ e.ret = Some(slot.token)
                /\ e.post_pos = e.pre_pos + 1
                /\ Len(e.post_errors) >= Len(e.pre_errors)
                /\ SubSeq(e.post_errors, 1, Len(e.pre_errors)) = e.pre_errors
                /\ \A i \in (Len(e.pre_errors) + 1)..Len(e.post_errors) :
                      e.post_errors[i].type # "AstError"
           ELSE /\ e.ret = NoToken
                /\ e.post_pos = e.pre_pos
                /\ e.post_errors = Append(e.pre_errors,
                      [type |-> "AstError", token |-> slot.token.token,
                       additional |-> e.message, range |-> Nothing])

\* require recorded its diagnostic at a token that is not the first of the
\* stream, after other diagnostics.
RequireContractWitness ==
    \E k \in Entries("require") :
        /\ oplog[k].pre_pos > 1
        /\ oplog[k].pre_errors # <<>>
        /\ oplog[k].ret = NoToken
        /\ Len(oplog[k].post_errors) = Len(oplog[k].pre_errors) + 1
        /\ oplog[k].post_errors[Len(oplog[k].post_errors)].type = "AstError"


\* The operations of the require family.
RequireFamily ==
    {"require", "require_with_reference_token", "require_with_reference_range",
     "require_with_reference_range_callback"}

\* The entries of the operation log for the require family.
RequireEntries == {k \in 1..Len(oplog) : oplog[k].op \in RequireFamily}

\* C11: every call of a require-family operation that returns no token has
\* recorded an AstError, also when the current lexer result is Fatal.
RequireAlwaysReports ==
    \A k \in RequireEntries :
        (oplog[k].ret = NoToken /\ oplog[k].panic = "") =>
            /\ Len(oplog[k].post_errors) = Len(oplog[k].pre_errors) + 1
            /\ oplog[k].post_errors[Len(oplog[k].post_errors)].type = "AstError"

\* The diagnostic a require-family call recorded last.
Recorded(e) == e.post_errors[Len(e.post_errors)]

\* Whether the entry is a call at a readable token that is not the symbol.
Mismatch(e) ==
    /\ LexerCurrent(e.pre_pos) # Nothing
    /\ LexerCurrent(e.pre_pos).kind # "Fatal"
    /\ ~is_symbol(LexerCurrent(e.pre_pos).token, e.symbol)

\* C12: on a mismatch require_with_reference_token records one diagnostic
\* anchored at the reference token, whose range() is that token's; the two
\* range operations record one whose range() is (start of start_token, end of
\* end_token); and the range() of the diagnostic of plain require is the
\* failing token's (start, end).
ReferenceAnchoring ==
    \A k \in RequireEntries :
        LET e == oplog[k] IN
        Mismatch(e) =>
            /\ Len(e.post_errors) = Len(e.pre_errors) + 1
            /\ Recorded(e).type = "AstError"
            /\ Recorded(e).additional = e.message
            /\ e.op = "require" =>
                  LET token == LexerCurrent(e.pre_pos).token.token IN
                  AstErrorRange(Recorded(e)) = <<token.start_position, token.end_position>>
            /\ e.op = "require_with_reference_token" =>
                  /\ Recorded(e).token = e.references[1].token
                  /\ Recorded(e).range = Nothing
                  /\ AstErrorRange(Recorded(e)) = <<e.references[1].token.start_position,
                                                    e.references[1].token.end_position>>
            /\ e.op \in {"require_with_reference_range",
                         "require_with_reference_range_callback"} =>
                  AstErrorRange(Recorded(e)) = <<e.references[1].token.start_position,
                                                 e.references[2].token.end_position>>

\* A ranged diagnostic was recorded whose start and end tokens differ, and a
\* diagnostic anchored at a reference token was recorded before it.
ReferenceAnchoringWitness ==
    /\ \E k \in RequireEntries :
          /\ oplog[k].op = "require_with_reference_range"
          /\ Mismatch(oplog[k])
          /\ oplog[k].references[1] # oplog[k].references[2]
          /\ \E i \in 1..Len(oplog[k].pre_errors) :
                /\ oplog[k].pre_errors[i].type = "AstError"
                /\ oplog[k].pre_errors[i].token \in {r.token : r \in OpReferences}

RECURSIVE DocumentOrder(_)
RECURSIVE DocumentOrderAll(_)
\* The token references of a sequence of nodes, left to right.
DocumentOrderAll(nodes) ==
    IF nodes = <<>> THEN <<>>
    ELSE DocumentOrder(Head(nodes)) \o DocumentOrderAll(Tail(nodes))

\* The token references a node contains, in document order.
DocumentOrder(node) ==
    CASE node.kind = "TokenReference" -> <<node.reference>>
      [] node.kind = "None" -> <<>>
      [] node.kind \in {"Vec", "Struct"} -> DocumentOrderAll(node.children)
      [] node.kind = "Punctuated" -> Append(DocumentOrder(node.node), node.separator)
      [] node.kind = "End" -> DocumentOrder(node.node)

RECURSIVE Remaining(_)
\* The token references the work list still stands for.
Remaining(its) ==
    IF its = <<>> THEN <<>>
    ELSE (IF Head(its).kind = "TokenReference" THEN <<Head(its).reference>>
          ELSE DocumentOrder(Head(its).node)) \o Remaining(Tail(its))

RECURSIVE YieldedBy(_, _)
\* The token references the calls of one kind returned, in call order.
YieldedBy(op, calls) ==
    IF calls = <<>> THEN <<>>
    ELSE (IF Head(calls).op = op /\ Head(calls).ret # Nothing
          THEN <<Head(calls).ret.value>> ELSE <<>>) \o YieldedBy(op, Tail(calls))

\* A sequence back to front.
Reverse(s) == [k \in 1..Len(s) |-> s[Len(s) + 1 - k]]

\* The elements of a sequence.
Range(s) == {s[k] : k \in 1..Len(s)}

\* C13: for any interleaving of next() and next_back() on the iterator of a
\* node, what next() returned, then what is left, then the reverse of what
\* next_back() returned, is the document-order sequence of the node's token
\* references; no token reference is returned twice; once a call has returned
\* None every later call returns None and all token references have been
\* returned; and when all have been returned both calls return None.
TokensDoubleEnded ==
    pc = "tokens" =>
        /\ YieldedBy("next", taken) \o Remaining(items)
               \o Reverse(YieldedBy("next_back", taken)) = DocumentOrder(root)
        /\ Cardinality(Range(YieldedBy("next", taken)) \cup Range(YieldedBy("next_back", taken)))
               = Len(YieldedBy("next", taken)) + Len(YieldedBy("next_back", taken))
        /\ \A k \in 1..Len(taken) : taken[k].ret = Nothing =>
               /\ \A j \in k..Len(taken) : taken[j].ret = Nothing
               /\ YieldedBy("next", taken) \o Reverse(YieldedBy("next_back", taken))
                      = DocumentOrder(root)
        /\ Remaining(items) = <<>> =>
               /\ TokensNext(items).ret = Nothing
               /\ TokensNextBack(items).ret = Nothing

\* A struct with an empty child and a child of two token references has been
\* walked from both ends until a call returned None.
TokensDoubleEndedWitness ==
    /\ pc = "tokens"
    /\ root.kind = "Struct"
    /\ \E k \in 1..Len(root.children) : DocumentOrder(root.children[k]) = <<>>
    /\ Len(DocumentOrder(root)) >= 2
    /\ YieldedBy("next", taken) # <<>>
    /\ YieldedBy("next_back", taken) # <<>>
    /\ \E k \in 1..Len(taken) : taken[k].ret = Nothing

\* C14: surrounding_trivia of a node with at least one token reference is the
\* leading trivia of its first token reference and the trailing trivia of its
\* last, also when the node has exactly one token reference.
SurroundingTriviaOfEnds ==
    (pc = "tokens" /\ obs # Nothing /\ DocumentOrder(root) # <<>>) =>
        obs.ret = <<DocumentOrder(root)[1].leading_trivia,
                    DocumentOrder(root)[Len(DocumentOrder(root))].trailing_trivia>>

\* Whether a result of the lexer is an Ok token of the given kind.
IsToken(r, kind) == r.kind = "Ok" /\ r.token.kind = kind

\* The calls of next() that returned the Eof token.
EofCalls == {k \in 1..Len(taken) : IsToken(taken[k], "Eof")}

\* C15: in the results of repeated next() calls the Eof token occurs at most
\* once and nothing but None follows it; None is returned only after the Eof
\* token and every call after a None returns None; every token ends at or
\* after its start; and after two calls more than the input has characters
\* the Eof token has been returned.
LexerEofOnce ==
    pc = "lexer" =>
        /\ Cardinality(EofCalls) <= 1
        /\ \A k \in EofCalls : \A j \in (k + 1)..Len(taken) : taken[j] = Nothing
        /\ \A k \in 1..Len(taken) : taken[k] = Nothing =>
               /\ \E e \in EofCalls : e < k
               /\ \A j \in k..Len(taken) : taken[j] = Nothing
        /\ \A k \in 1..Len(taken) : taken[k].kind = "Ok" =>
               taken[k].token.end_position.bytes >= taken[k].token.start_position.bytes
        /\ Len(taken) >= Len(source) + 2 => Cardinality(EofCalls) = 1

\* An input with a newline and an unrecognised character has been read to
\* its Eof token and next() has returned None twice since.
LexerEofOnceWitness ==
    /\ pc = "lexer"
    /\ \E k \in 1..Len(source) : source[k] = "\n"
    /\ \E k \in 1..Len(taken) : taken[k].kind = "Err"
    /\ Len(taken) >= 4
    /\ taken[Len(taken)] = Nothing /\ taken[Len(taken) - 1] = Nothing
    /\ IsToken(taken[Len(taken) - 2], "Eof")

\* The character of the input at a byte offset, None past the end.
CharAt(bytes) == IF bytes + 1 <= Len(source) THEN source[bytes + 1] ELSE None

\* C16: a token that starts at "=" is the TwoEqual symbol over both characters
\* when the next character is "=", and otherwise the Equal symbol over the
\* "=" alone.
LongestMatch ==
    pc = "lexer" =>
        \A k \in 1..Len(taken) :
            (taken[k].kind = "Ok" /\ CharAt(taken[k].token.start_position.bytes) = "=") =>
                LET token == taken[k].token
                    start == token.start_position.bytes
                IN IF CharAt(start + 1) = "="
                   THEN token.kind = "Symbol" /\ token.symbol = "TwoEqual"
                        /\ token.end_position.bytes = start + 2
                   ELSE token.kind = "Symbol" /\ token.symbol = "Equal"
                        /\ token.end_position.bytes = start + 1

\* The Whitespace tokens among the results.
WhitespaceCalls == {k \in 1..Len(taken) : IsToken(taken[k], "Whitespace")}

\* C17: every Whitespace token is the text of the input between its
\* positions; it is made of spaces and tabs, then possibly one newline ("\n",
\* or "\r" and "\n") that is its end; a token that stops short of a newline is
\* followed by neither space, tab nor newline; and a token that starts with
\* "\n" is that newline alone.
WhitespaceLineOriented ==
    pc = "lexer" =>
        \A k \in WhitespaceCalls :
            LET token == taken[k].token
                text == token.text
                n == Len(text)
                body == IF text[n] # "\n" THEN n
                        ELSE IF n >= 2 /\ text[n - 1] = "\r" THEN n - 2 ELSE n - 1
                after == CharAt(token.end_position.bytes)
            IN /\ n >= 1
               /\ text = Slice(source, token.start_position.bytes, token.end_position.bytes)
               /\ \A j \in 1..body : text[j] \in {" ", "\t"}
               /\ text[n] # "\n" =>
                      /\ after \notin {" ", "\t", "\n"}
                      /\ ~(after = "\r" /\ CharAt(token.end_position.bytes + 1) = "\n")
               /\ text[1] = "\n" => n = 1

\* Among the results are a token of a space, a tab and the newline that ends
\* it, a token that ends in CR LF, and a token of a newline alone.
WhitespaceLineOrientedWitness ==
    /\ pc = "lexer"
    /\ \E k \in WhitespaceCalls : taken[k].token.text = <<"\n">>
    /\ \E k \in WhitespaceCalls :
           taken[k].token.text \in {<<" ", "\t", "\n">>, <<" ", "\r", "\n">>}

\* The kinds of the tokens the lazy lexer yields, "Fatal" for a result with no token.
LazyKinds == [k \in 1..Len(slots) |-> IF slots[k].kind = "Ok" THEN slots[k].token.kind ELSE "Fatal"]

\* The index of the only Symbol token when the tokens are whitespace tokens, one
\* Symbol token, whitespace tokens and Eof; 0 otherwise.
OneSymbolAt ==
    IF \E s \in 1..Len(slots) :
          /\ LazyKinds[s] = "Symbol"
          /\ LazyKinds[Len(slots)] = "Eof"
          /\ \A k \in 1..(Len(slots) - 1) : k # s => LazyKinds[k] = "Whitespace"
    THEN CHOOSE s \in 1..Len(slots) : LazyKinds[s] = "Symbol"
    ELSE 0

\* C18: symbol_specific_lua_version succeeds exactly when the text is
\* whitespace tokens, one Symbol token, whitespace tokens and then Eof; the
\* token reference it returns has the whitespace before the symbol as leading
\* trivia and the whitespace after it as trailing trivia; and every failure is
\* an InvalidSymbol or an UnexpectedToken error.
SymbolContract ==
    (pc = "done" /\ result # Nothing) =>
        /\ result.kind = "Ok" <=> OneSymbolAt # 0
        /\ result.kind = "Ok" =>
              /\ result.value.token = slots[OneSymbolAt].token
              /\ result.value.leading_trivia =
                     [k \in 1..(OneSymbolAt - 1) |-> slots[k].token]
              /\ result.value.trailing_trivia =
                     [k \in 1..(Len(slots) - 1 - OneSymbolAt) |-> slots[OneSymbolAt + k].token]
        /\ result.kind = "Err" => result.error[1] \in {"InvalidSymbol", "UnexpectedToken"}

\* BinOp::$operator(token)
BinOp(operator, token) == [operator |-> operator, token |-> token]

\* Whether the operator k of the stream is the one applied last among the
\* operators from..to: none of them has a lower precedence, and those of the
\* same precedence are to its left, or to its right if it is right-associative.
AppliedLast(k, from, to) ==
    \A j \in from..to :
        LET mine == BinOpRow(ExprOps[k]).precedence
            other == BinOpRow(ExprOps[j]).precedence
        IN /\ other >= mine
           /\ (other = mine /\ j # k) =>
                  IF ExprOps[k] \in {"Caret", "TwoDots"} THEN j > k ELSE j < k

RECURSIVE Grouped(_, _)
\* The expression of the operands from..to of the stream, grouped by the
\* precedence and the associativity of the operators between them.
Grouped(from, to) ==
    IF from = to THEN ExpressionNumber(slots[2 * from - 1].token)
    ELSE LET k == CHOOSE k \in from..(to - 1) : AppliedLast(k, from, to - 1)
         IN ExpressionBinaryOperator(Grouped(from, k),
                                     BinOp(ExprOps[k], slots[2 * k].token),
                                     Grouped(k + 1, to))

\* Whether the active dialect has every operator of the stream.
AllEnabled ==
    \A k \in 1..Len(ExprOps) : has_version(lua_version, BinOpRow(ExprOps[k]).versions)

\* C19: parsing `1 op 2 op 3`, with operators the active dialect has, gives
\* the expression in which an operator of higher precedence groups tighter,
\* operators of equal precedence group from left to right, and exponentiation
\* and concatenation group from right to left.
PrecedenceGrouping ==
    (obs # Nothing /\ obs.op = "parse_expression" /\ AllEnabled) =>
        /\ pc = "parsed"
        /\ obs.ret = Value(Grouped(1, Len(ExprOps) + 1))

\* C20: BinOp::consume at the token of an operator that the active dialect
\* lacks returns nothing and leaves the cursor where it is; at the token of an
\* operator without a dialect restriction it returns that operator and moves
\* the cursor past the token, under every dialect.
BinOpGating ==
    (obs # Nothing /\ obs.op = "BinOp::consume") =>
        \A k \in 1..Len(oplog) :
            LET e == oplog[k]
                token == LexerCurrent(e.pre_pos).token
            IN (e.op = "BinOp::consume" /\ token.token.kind = "Symbol") =>
                  IF ~has_version(lua_version, BinOpRow(token.token.symbol).versions)
                  THEN e.panic = "" /\ e.ret = NoToken /\ e.post_pos = e.pre_pos
                  ELSE BinOpRow(token.token.symbol).versions = {} =>
                          /\ e.panic = ""
                          /\ e.ret = Some(BinOp(token.token.symbol, token))
                          /\ e.post_pos = e.pre_pos + 1

\* C21: a step of the driver at a Fatal result consumes that result alone,
\* appends its tokenizer errors in order, leaves the block as it was and stays
\* in the loop; and the parse of one unrecognised character returns an empty
\* block, the Eof token and the one UnexpectedToken diagnostic of the character.
FatalNeverAborts ==
    /\ (obs # Nothing /\ obs.step = "fatal") =>
          /\ slots[obs.pos0].kind = "Fatal"
          /\ pos = obs.pos0 + 1
          /\ errors = obs.errors0 \o
                 [k \in 1..Len(slots[obs.pos0].errors) |->
                     TokenizerError(slots[obs.pos0].errors[k])]
          /\ block = obs.block0
          /\ pc = "loop"
    /\ (source = <<"?">> /\ slots = Lex(source) /\ pc \in {"returned", "done"}) =>
          /\ block = BlockNew
          /\ eof # Nothing /\ eof.token.kind = "Eof"
          /\ Len(errors) = 1
          /\ errors[1].type = "TokenizerError"
          /\ errors[1].error.error = <<"UnexpectedToken", "?">>

\* A Fatal result was consumed after a statement had been parsed and a
\* diagnostic recorded.
FatalNeverAbortsWitness ==
    /\ slots = Lex(source)
    /\ obs # Nothing /\ obs.step = "fatal"
    /\ obs.block0.stmts # <<>>
    /\ obs.errors0 # <<>>
    /\ Len(errors) > Len(obs.errors0)

\* The characters an identifier continues with.
IdentifierContinue == LowerCase \cup UpperCase \cup {"_"} \cup Digits

\* The byte offset at which the run of identifier characters from start ends.
RunEnd(start) ==
    CHOOSE e \in (start + 1)..Len(source) :
        /\ \A j \in start..(e - 1) : CharAt(j) \in IdentifierContinue
        /\ CharAt(e) \notin IdentifierContinue

\* The spellings of the keywords.
KeywordStrings == {SymbolTable[i].string : i \in Keywords}

\* C22: a token that starts at an identifier-start character covers the
\* longest run of letters, digits and underscores from there, and is a Symbol
\* exactly when the whole run spells a keyword and an Identifier otherwise.
IdentifierLongestRun ==
    pc = "lexer" =>
        \A k \in 1..Len(taken) :
            (taken[k].kind = "Ok"
             /\ is_identifier_start(CharAt(taken[k].token.start_position.bytes))) =>
                LET token == taken[k].token
                    start == token.start_position.bytes
                    run == [j \in 1..(RunEnd(start) - start) |-> source[start + j]]
                IN /\ token.end_position.bytes = RunEnd(start)
                   /\ TokenDisplay(token) = run
                   /\ IF run \in KeywordStrings
                      THEN token.kind = "Symbol" /\ SymbolDisplay(token.symbol) = run
                      ELSE token.kind = "Identifier"

\* An identifier that starts with a keyword and goes on was returned as one
\* Identifier of three characters.
IdentifierLongestRunWitness ==
    /\ pc = "lexer"
    /\ \E k \in 1..Len(taken) :
          /\ IsToken(taken[k], "Identifier")
          /\ Len(taken[k].token.text) = 3
          /\ [j \in 1..2 |-> taken[k].token.text[j]] \in KeywordStrings

\* The first n characters of the input.
Prefix(n) == SubSeq(source, 1, n)

RECURSIVE Utf8Len(_)
\* The number of bytes of the UTF-8 encoding of a string.
Utf8Len(text) == IF text = <<>> THEN 0 ELSE len_utf8(Head(text)) + Utf8Len(Tail(text))

\* The number of newlines of a string.
Newlines(text) == Cardinality({k \in 1..Len(text) : text[k] = "\n"})

\* The number of characters of a string after its last newline.
SinceNewline(text) ==
    Len(text) - (IF Newlines(text) = 0 THEN 0
                 ELSE CHOOSE k \in 1..Len(text) :
                          text[k] = "\n" /\ \A j \in (k + 1)..Len(text) : text[j] # "\n")

\* The position after a prefix of n characters has been consumed.
PositionAfter(n) ==
    [bytes |-> Utf8Len(Prefix(n)),
     line |-> 1 + Newlines(Prefix(n)),
     character |-> 1 + SinceNewline(Prefix(n))]

\* C23: after n characters have been returned by next(), the position of a
\* source cursor has the UTF-8 length of the first n characters as its byte
\* offset, one more than their newlines as its line and one more than the
\* characters since the last newline as its character; current() is the
\* character after the first n; and next() at the end of the input returns
\* nothing and leaves the position as it was.
CursorPosition ==
    pc = "cursor" =>
        /\ lexer.common.position = PositionAfter(taken.common)
        /\ lexer.local = PositionAfter(taken.local)
        /\ CommonCurrent(source, lexer.common) = CharAt(taken.common)
        /\ SourceCurrent(source, lexer.local) = CharAt(taken.local)
        /\ (obs # Nothing /\ obs.op = "next") =>
              /\ (CommonCurrent(source, obs.before.common) = None) =>
                     obs.ret.common = None /\ lexer.common = obs.before.common
              /\ (SourceCurrent(source, obs.before.local) = None) =>
                     obs.ret.local = None /\ lexer.local = obs.before.local

\* C24: consume(c) returns true and advances by one character exactly when
\* current() is c, and otherwise returns false and leaves the cursor where
\* it was.
ConsumeOnCurrent ==
    (pc = "cursor" /\ obs # Nothing /\ obs.op = "consume") =>
        /\ IF CommonCurrent(source, obs.before.common) = obs.character
           THEN obs.ret.common /\ lexer.common = CommonNext(source, obs.before.common).lp
           ELSE ~obs.ret.common /\ lexer.common = obs.before.common
        /\ IF SourceCurrent(source, obs.before.local) = obs.character
           THEN obs.ret.local /\ lexer.local = SourceNext(source, obs.before.local)
           ELSE ~obs.ret.local /\ lexer.local = obs.before.local

\* The k-th result of process_next on the input, None once they are used up.
ResultAt(raw, k) == IF k <= Len(raw) THEN raw[k] ELSE Nothing

\* C25: the results returned by next(), then the one current() shows, then the
\* one peek() shows, are the results of process_next in their order, each
\* once; peek() shows None whenever current() does; next() returns what
\* current() showed before the call, and current() then shows what peek()
\* showed before the call.
LookaheadBuffer ==
    /\ [](pc = "lexer" =>
            \E raw \in {RawTokens(source)} :
                /\ \A k \in 1..Len(taken) : taken[k] = ResultAt(raw, k)
                /\ RawLexerCurrent(lexer) = ResultAt(raw, Len(taken) + 1)
                /\ RawLexerPeek(lexer) = ResultAt(raw, Len(taken) + 2)
                /\ RawLexerCurrent(lexer) = Nothing => RawLexerPeek(lexer) = Nothing)
    /\ [][pc = "lexer" =>
            /\ taken' = Append(taken, RawLexerCurrent(lexer))
            /\ RawLexerCurrent(lexer') = RawLexerPeek(lexer)]_vars

\* Three results of an input of three tokens have been returned by next(),
\* the last of them its Eof token, and current() and peek() show None.
LookaheadBufferWitness ==
    /\ pc = "lexer"
    /\ Len(taken) = 4
    /\ IsToken(taken[1], "Identifier") /\ IsToken(taken[2], "Symbol")
    /\ taken[3].kind = "Err" /\ IsToken(taken[4], "Eof")
    /\ RawLexerCurrent(lexer) = Nothing /\ RawLexerPeek(lexer) = Nothing

\* C26: push_punctuated(value, punctuation) on a sequence that ends with
\* End(v) puts Punctuated(v, punctuation) in its place and End(value) after
\* it, one pair more, the earlier pairs as they were; on an empty sequence it
\* panics; and on a sequence that ends with a Punctuated pair it panics and
\* the sequence is as it was before the call.
PushPunctuatedContract ==
    (pc = "punct" /\ obs.op = "push_punctuated") =>
        LET before == obs.before
            n == Len(before)
        IN IF n = 0
           THEN obs.panic # ""
           ELSE IF before[n].kind = "Punctuated"
           THEN obs.panic # "" /\ pairs = before
           ELSE /\ obs.panic = ""
                /\ Len(pairs) = n + 1
                /\ pairs[n] = PairPunctuated(before[n].value, obs.punctuation)
                /\ pairs[n + 1] = PairEnd(obs.value)
                /\ \A i \in 1..(n - 1) : pairs[i] = before[i]

\* push_punctuated has panicked on a sequence of two pairs of which the last
\* has punctuation.
PushPunctuatedContractWitness ==
    /\ pc = "punct" /\ obs.op = "push_punctuated"
    /\ Len(obs.before) = 2
    /\ obs.before[2].kind = "Punctuated"
    /\ obs.panic # ""

\* C27: errors() returns the error list of a Recovered and of a Fatal result
\* and the empty list of an Ok result; and new(value, errors) is Ok(value)
\* when errors is empty and Recovered(value, errors) otherwise.
LexerResultContract ==
    (pc = "result" /\ obs # Nothing) =>
        /\ obs.op = "errors" =>
              IF obs.of.kind \in {"Recovered", "Fatal"}
              THEN errors = obs.of.errors
              ELSE errors = <<>>
        /\ obs.op = "new" =>
              IF obs.errors = <<>>
              THEN result = LexOk(obs.value)
              ELSE result = LexRecovered(obs.value, obs.errors)

\* Whether one list of diagnostics begins with another.
IsPrefix(short, long) ==
    Len(short) <= Len(long) /\ SubSeq(long, 1, Len(short)) = short

RECURSIVE TokenizerErrorsOf(_)
\* The tokenizer errors among a list of diagnostics, in order.
TokenizerErrorsOf(errs) ==
    IF errs = <<>> THEN <<>>
    ELSE (IF Head(errs).type = "TokenizerError" THEN <<Head(errs).error>> ELSE <<>>)
             \o TokenizerErrorsOf(Tail(errs))

RECURSIVE SlotErrors(_)
\* The tokenizer errors of the first n results of the lexer, in order.
SlotErrors(n) == IF n = 0 THEN <<>> ELSE SlotErrors(n - 1) \o slots[n].errors

\* C28: every ParserState operation and every driver step leaves the
\* diagnostics it found as the beginning of the diagnostics it leaves; the
\* tokenizer errors among the diagnostics are those of the results consumed so
\* far, each once and in order; and an operation that does not move the
\* cursor records no tokenizer error.
DiagnosticsAppendOnly ==
    pc \in {"loop", "eof", "returned", "done"} =>
        /\ obs # Nothing => IsPrefix(obs.errors0, errors)
        /\ \A k \in 1..Len(oplog) :
              /\ IsPrefix(oplog[k].pre_errors, oplog[k].post_errors)
              /\ TokenizerErrorsOf(oplog[k].post_errors) = SlotErrors(oplog[k].post_pos - 1)
              /\ oplog[k].post_pos = oplog[k].pre_pos =>
                     TokenizerErrorsOf(oplog[k].post_errors)
                         = TokenizerErrorsOf(oplog[k].pre_errors)
        /\ TokenizerErrorsOf(errors) = SlotErrors(pos - 1)

\* The diagnostics hold the tokenizer errors of a Recovered result and of a
\* Fatal one that were consumed, and a diagnostic of the parser between them.
DiagnosticsAppendOnlyWitness ==
    /\ pc = "done"
    /\ \E i, j, k \in 1..Len(errors) :
          /\ i < j /\ j < k
          /\ errors[i].type = "TokenizerError"
          /\ errors[j].type = "AstError"
          /\ errors[k].type = "TokenizerError"
    /\ \E n \in 1..Len(slots) : slots[n].kind = "Recovered"
    /\ \E n \in 1..Len(slots) : slots[n].kind = "Fatal"

\* The tokens returned so far, without the None results.
TokensTaken == SelectSeq(taken, LAMBDA r : r # Nothing)

RECURSIVE ConcatTexts(_)
\* The texts of a sequence of Ok results, one after the other.
ConcatTexts(results) ==
    IF results = <<>> THEN <<>>
    ELSE TokenDisplay(Head(results).token) \o ConcatTexts(Tail(results))

\* C29: when the lexer has returned its Eof token without a tokenizer error,
\* the first token starts at byte 0, every other token starts at the byte
\* where the one before it ended, the Eof token starts and ends at the length
\* of the input, and the texts of the tokens, in order, make up the input.
TokensTileInput ==
    (pc = "lexer" /\ EofCalls # {} /\ \A k \in 1..Len(taken) : taken[k].kind # "Err") =>
        \E tokens \in {TokensTaken} :
            /\ tokens[1].token.start_position.bytes = 0
            /\ \A k \in 2..Len(tokens) :
                  tokens[k].token.start_position.bytes = tokens[k - 1].token.end_position.bytes
            /\ tokens[Len(tokens)].token.kind = "Eof"
            /\ tokens[Len(tokens)].token.start_position.bytes = Len(source)
            /\ tokens[Len(tokens)].token.end_position.bytes = Len(source)
            /\ ConcatTexts(tokens) = source

\* The with_ methods, by name.
WithMethod(name, version) ==
    CASE name = "with_luau" -> with_luau(version)
      [] name = "with_lua52" -> with_lua52(version)
      [] name = "with_lua53" -> with_lua53(version)

WithMethods == {"with_luau", "with_lua52", "with_lua53"}

\* The capabilities of a version, by the has_ methods.
Capabilities(version) ==
    [luau |-> has_luau(version), lua52 |-> has_lua52(version), lua53 |-> has_lua53(version)]

\* C30: a version made by a constructor and any with_ calls has Lua 5.2 when
\* it has Lua 5.3; a with_ call takes no capability away, gives the same
\* version when made twice, and gives the same version made before or after
\* another with_ call; lua51() has no capability and new() and default() have
\* all three.
LuaVersionAlgebra ==
    pc = "version" =>
        /\ has_lua53(lua_version) => has_lua52(lua_version)
        /\ obs # Nothing =>
              /\ lua_version = WithMethod(obs.op, obs.before)
              /\ \A c \in {"luau", "lua52", "lua53"} :
                    Capabilities(obs.before)[c] => Capabilities(lua_version)[c]
              /\ WithMethod(obs.op, lua_version) = lua_version
              /\ \A other \in WithMethods :
                    WithMethod(other, lua_version)
                        = WithMethod(obs.op, WithMethod(other, obs.before))
        /\ (taken.calls = <<>> /\ taken.constructor = "lua51") =>
              Capabilities(lua_version) = [luau |-> FALSE, lua52 |-> FALSE, lua53 |-> FALSE]
        /\ (taken.calls = <<>> /\ taken.constructor \in {"new", "default"}) =>
              Capabilities(lua_version) = [luau |-> TRUE, lua52 |-> TRUE, lua53 |-> TRUE]

\* with_lua53 was called on lua51() and with_luau after it.
LuaVersionAlgebraWitness ==
    /\ pc = "version"
    /\ taken.constructor = "lua51"
    /\ taken.calls = <<"with_lua53", "with_luau">>
    /\ has_luau(lua_version) /\ has_lua52(lua_version) /\ has_lua53(lua_version)

=============================================================================
